---- MODULE Spec2Model ----
(***************************************************************************)
(* A model of the zugbruecke session client                                *)
(* (src/src/zugbruecke/core/session_client.py) and of the guest-side       *)
(* routine object (src/pycrosscall/routine_server.py).                     *)
(*                                                                         *)
(* The session client is one main thread that runs the constructor and     *)
(* then one operation after the other; pc is its position.  The reverse    *)
(* RPC endpoint runs in a thread of its own: the guests' status reports    *)
(* (set_server_status) interleave with every step of the main thread.      *)
(***************************************************************************)
EXTENDS Naturals, Sequences, FiniteSets, TLC

\* ------------------------------------------------------------------ bounds

\* How many guest interpreters a session may launch in a run of the model.
MaxLaunch == 2
\* The session's timeout_start and timeout_stop, in polling steps of the wait loop.
TimeoutStartSteps == 2
TimeoutStopSteps == 1

\* ------------------------------------------------------------------ inputs

\* Library names passed to load_library.
Names == {"a.dll", "b.dll"}
\* The kinds load_library accepts (line 174).
KnownDllTypes == {"cdll", "windll", "oledll"}
\* The kinds the model passes to load_library.
InputDllTypes == {"cdll", "oledll", "bogus"}
\* Operations of the shape "stage check, then ask the server" (lines 64-125).
SimpleOps == {"ctypes_FormatError", "ctypes_get_last_error", "ctypes_GetLastError",
              "ctypes_set_last_error", "ctypes_WinError", "ctypes_find_msvcrt",
              "ctypes_find_library"}
\* Path translation (lines 215-237): the argument is checked before the stage.
PathOps == {"path_unix_to_wine", "path_wine_to_unix"}
\* Callback-type construction (lines 127-159).
FuncTypeOps == {"ctypes_CFUNCTYPE", "ctypes_WINFUNCTYPE"}
GuestDependentOps == {"load_library"} \cup SimpleOps \cup PathOps \cup FuncTypeOps
\* Who calls terminate: the program, or a registered handler / hook.
TerminateSources == {"explicit", "SIGINT", "SIGTERM", "atexit"}

VARIABLES
    \* ---- main thread
    pc,                  \* position of the main thread
    op,                  \* the operation in progress: [name, dll, kind]
    ret,                 \* how the last operation ended: [op, kind, err, obj]
    force,               \* the constructor's force argument
    target,              \* target_status of the wait in progress
    waited,              \* polling steps slept in the wait in progress
    \* ---- fields of session_client_class
    up, stage, server_up, rpc_server, rpc_funcs, log, handlers,
    dll_dict, rpc_client, interpreter_session, p,
    \* ---- the guest side, as far as the client sees it
    guests,              \* state of every interpreter launched, in launch order
    guestLoads,          \* per library name: load requests the guest served with success
    interpTerminated,    \* interpreters whose Interpreter.terminate() was called
    \* ---- history
    created,             \* per name: the handle objects (dll_client_class) ever constructed
    returned,            \* per name: the handle objects load_library ever returned
    lastReq,             \* the forward request of the operation in progress / last: [method, stage]
    tsteps,              \* shutdown steps of the terminate call in progress / last
    s2steps,             \* handshake steps of the stage-2 initialisation in progress / last
    termDone,            \* terminate calls that have returned: 0, 1, 2 for more
    guestOpInvoked,      \* a guest-dependent operation has been invoked
    \* ---- fields of routine_server_class (guest side), per routine
    r_argtypes, r_restype, h_argtypes, h_restype, datatypes, r_last,
    r_attach,            \* the last routine_server_class(dll, name): its name and outcome
    \* ---- memsync attributes (client side)
    m_routine,           \* memsync of each routine handle
    m_callback,          \* memsync of the callback function type
    m_last,              \* the last memsync operation and its outcome
    \* ---- one forward call of a routine
    wb,                  \* a call with a character buffer: caller's buffer, payloads, guest's buffer
    cb,                  \* a call whose routine invokes callbacks: reverse requests and replies
    \* ---- client operations invoked from several threads
    th,                  \* per caller thread: position, arguments and outcome of its load_library
    \* ---- signal handlers running on top of the main thread's operation
    frames,              \* the interrupted calls, innermost first
    \* ---- history of one operation
    pre,                 \* stage, library names and launches when the operation was called
    \* ---- configuration access
    par                  \* the last get_parameter / set_parameter call and its outcome

mainVars == <<pc, op, ret, force, target, waited>>
clientVars == <<up, stage, server_up, rpc_server, rpc_funcs, log, handlers,
                dll_dict, rpc_client, interpreter_session, p>>
guestVars == <<guests, guestLoads, interpTerminated>>
histVars == <<created, returned, lastReq, tsteps, s2steps,
              termDone, guestOpInvoked>>
memsyncVars == <<m_routine, m_callback, m_last>>
auxVars == <<wb, cb, th, frames, pre, par>>
routineVars == <<r_argtypes, r_restype, h_argtypes, h_restype, datatypes, r_last,
                 r_attach, memsyncVars, auxVars>>
vars == <<mainVars, clientVars, guestVars, histVars, routineVars>>

NoOp == [name |-> "none", dll |-> "", kind |-> ""]
\* A dll_client_class object: the seq-th one constructed for library name.
NoObj == [name |-> "", seq |-> 0]
NewObj(n) == [name |-> n, seq |-> Cardinality(created[n]) + 1]
NoRet == [op |-> NoOp, kind |-> "none", err |-> "", obj |-> NoObj]
NoReq == [method |-> "none", stage |-> 0]

\* ================================================================ session

\* How an operation ends.  After the at-exit hook the process is gone.
AfterOp == IF op.name = "terminate" /\ op.kind = "atexit" THEN "exited" ELSE "idle"

Return(obj) ==
    /\ pc' = AfterOp
    /\ ret' = [op |-> op, kind |-> "return", err |-> "", obj |-> obj]
    /\ op' = NoOp

Raise(err) ==
    /\ pc' = AfterOp
    /\ ret' = [op |-> op, kind |-> "raise", err |-> err, obj |-> NoObj]
    /\ op' = NoOp

\* A guest that accepts forward connections and serves forward requests.
Serving(g) == g \in 1..Len(guests) /\ guests[g] \in {"listening", "up"}

\* ---------------------------------------------------------- constructor

\* __init_stage_1__, lines 293-299, with __start_rpc_server__ (388-404).
InitStage1StartRpcServer ==
    /\ pc = "init1_rpc_server"
    /\ rpc_server' = "running"
    /\ rpc_funcs' = {"set_server_status"}
    /\ pc' = "init1_state"
    /\ UNCHANGED <<op, ret, force, target, waited>>
    /\ UNCHANGED <<up, stage, server_up, log, handlers, dll_dict, rpc_client,
                   interpreter_session, p>>
    /\ UNCHANGED <<guestVars, histVars, routineVars>>

\* __init_stage_1__, lines 301-332.
InitStage1State ==
    /\ pc = "init1_state"
    /\ log' = "open"
    /\ dll_dict' = <<>>
    /\ up' = TRUE
    /\ server_up' = FALSE
    /\ stage' = 1
    /\ pc' = "init1_register"
    /\ UNCHANGED <<op, ret, force, target, waited>>
    /\ UNCHANGED <<rpc_server, rpc_funcs, handlers, rpc_client, interpreter_session, p>>
    /\ UNCHANGED <<guestVars, histVars, routineVars>>

\* Lines 334-344 as they would be without the two signal.signal calls.
InitStage1RegisterAtexitOnly ==
    /\ pc = "init1_register"
    /\ handlers' = {"atexit"}
    /\ IF force
         THEN /\ pc' = "s2_launch"
              /\ UNCHANGED <<op, ret>>
         ELSE Return(NoObj)
    /\ UNCHANGED <<force, target, waited>>
    /\ UNCHANGED <<up, stage, server_up, rpc_server, rpc_funcs, log, dll_dict,
                   rpc_client, interpreter_session, p>>
    /\ UNCHANGED <<guestVars, histVars, routineVars>>

\* __init_stage_1__, lines 334-344: the destructor is registered; with force,
\* stage 2 starts inside the constructor.
InitStage1Register ==
    /\ pc = "init1_register"
    /\ handlers' = {"atexit", "SIGINT", "SIGTERM"}
    /\ IF force
         THEN /\ pc' = "s2_launch"
              /\ UNCHANGED <<op, ret>>
         ELSE Return(NoObj)
    /\ UNCHANGED <<force, target, waited>>
    /\ UNCHANGED <<up, stage, server_up, rpc_server, rpc_funcs, log, dll_dict,
                   rpc_client, interpreter_session, p>>
    /\ UNCHANGED <<guestVars, histVars, routineVars>>

\* ------------------------------------------------- waiting for the guest

\* CONFIG_DICT, line 440, and the lookup of line 451.
TimeoutAfter(t) == IF t THEN p.timeout_start ELSE p.timeout_stop

\* __wait_for_server_status_change__ returns: the caller goes on, with
\* __start_rpc_client__ (line 366) or with the interpreter's teardown (line 276).
WaitReturns ==
    /\ IF target
         THEN /\ pc' = "s2_connect"
              /\ s2steps' = Append(s2steps, IF server_up THEN "wait_up" ELSE "wait_timed_out")
              /\ UNCHANGED tsteps
         ELSE /\ pc' = "t_interp"
              /\ tsteps' = Append(tsteps, IF server_up THEN "wait_timed_out" ELSE "wait_down")
              /\ UNCHANGED s2steps
    /\ UNCHANGED <<op, ret>>

\* Lines 474-477: the timeout is raised through the caller and the operation.
WaitRaises ==
    /\ Raise(IF target THEN "TimeoutError: session server did not appear"
                       ELSE "TimeoutError: session server could not be stopped")
    /\ UNCHANGED <<tsteps, s2steps>>

\* Lines 431-453: no wait if the status already is the target.
WaitEnter ==
    /\ pc = "wait_enter"
    /\ IF target = server_up
         THEN WaitReturns /\ UNCHANGED waited
         ELSE /\ pc' = "wait_loop"
              /\ waited' = 0
              /\ UNCHANGED <<op, ret, tsteps, s2steps>>
    /\ UNCHANGED <<force, target, clientVars, guestVars, routineVars>>
    /\ UNCHANGED <<created, returned, lastReq, termDone, guestOpInvoked>>

\* Line 456: the loop's condition.
WaitLoop ==
    /\ pc = "wait_loop"
    /\ pc' = IF target # server_up THEN "wait_sleep" ELSE "wait_final"
    /\ UNCHANGED <<op, ret, force, target, waited>>
    /\ UNCHANGED <<clientVars, guestVars, histVars, routineVars>>

\* Lines 458-463 as they would be without the timeout's break.
WaitSleepNoTimeout ==
    /\ pc = "wait_sleep"
    /\ waited' = waited + 1
    /\ pc' = "wait_loop"
    /\ UNCHANGED <<op, ret, force, target>>
    /\ UNCHANGED <<clientVars, guestVars, histVars, routineVars>>

\* Lines 458-463: one polling step, then the check of the timeout.
WaitSleep ==
    /\ pc = "wait_sleep"
    /\ waited' = waited + 1
    /\ pc' = IF waited' >= TimeoutAfter(target) THEN "wait_final" ELSE "wait_loop"
    /\ UNCHANGED <<op, ret, force, target>>
    /\ UNCHANGED <<clientVars, guestVars, histVars, routineVars>>

\* Lines 465-483 as they would be if the timeout were not raised.
WaitFinalNoRaise ==
    /\ pc = "wait_final"
    /\ WaitReturns
    /\ UNCHANGED <<force, target, waited, clientVars, guestVars, routineVars>>
    /\ UNCHANGED <<created, returned, lastReq, termDone, guestOpInvoked>>

\* Lines 465-483: after the loop the status is read once more.
WaitFinal ==
    /\ pc = "wait_final"
    /\ IF target # server_up THEN WaitRaises ELSE WaitReturns
    /\ UNCHANGED <<force, target, waited, clientVars, guestVars, routineVars>>
    /\ UNCHANGED <<created, returned, lastReq, termDone, guestOpInvoked>>

\* ---------------------------------------------------------------- stage 2

\* Where an operation goes on once the stage is 2.
Body(name) ==
    CASE name = "load_library" -> "ll_lookup"
      [] name \in SimpleOps \cup PathOps -> "op_rpc"
      [] name \in FuncTypeOps -> "cb_kw"
      [] OTHER -> "idle"

\* __init_stage_2__, lines 348-363: environment, command line, Interpreter(...),
\* then the wait for the guest.
InitStage2LaunchTo(next) ==
    /\ pc = "s2_launch"
    /\ guests' = Append(guests, "starting")
    /\ interpreter_session' = Len(guests) + 1
    /\ s2steps' = <<"launch">>
    /\ target' = TRUE
    /\ pc' = next
    /\ UNCHANGED <<op, ret, force, waited>>
    /\ UNCHANGED <<up, stage, server_up, rpc_server, rpc_funcs, log, handlers,
                   dll_dict, rpc_client, p>>
    /\ UNCHANGED <<guestLoads, interpTerminated, routineVars>>
    /\ UNCHANGED <<created, returned, lastReq, tsteps, termDone, guestOpInvoked>>

\* Lines 348-363 as they would be without the wait of line 363.
InitStage2LaunchNoWait == InitStage2LaunchTo("s2_connect")

\* __init_stage_2__, lines 348-363.
InitStage2Launch == InitStage2LaunchTo("wait_enter")

\* __init_stage_2__, line 366, with __start_rpc_client__ (379-386): the connection
\* is made once the guest accepts it; it fails if the guest never does.
InitStage2Connect ==
    /\ pc = "s2_connect"
    /\ \/ /\ Serving(interpreter_session)
          /\ rpc_client' = interpreter_session
          /\ s2steps' = Append(s2steps, "connect")
          /\ pc' = "s2_stage"
          /\ UNCHANGED <<op, ret>>
       \/ /\ ~Serving(interpreter_session)
          /\ Raise("TimeoutError: rpc server could not be reached")
          /\ UNCHANGED <<rpc_client, s2steps>>
    /\ UNCHANGED <<force, target, waited>>
    /\ UNCHANGED <<up, stage, server_up, rpc_server, rpc_funcs, log, handlers,
                   dll_dict, interpreter_session, p>>
    /\ UNCHANGED <<guestVars, routineVars>>
    /\ UNCHANGED <<created, returned, lastReq, tsteps, termDone, guestOpInvoked>>

\* __init_stage_2__, lines 368-372; the operation that asked for stage 2 goes on
\* (the constructor with force returns).
InitStage2Stage ==
    /\ pc = "s2_stage"
    /\ stage' = 2
    /\ s2steps' = Append(s2steps, "stage2")
    /\ IF Body(op.name) = "idle"
         THEN Return(NoObj)
         ELSE pc' = Body(op.name) /\ UNCHANGED <<op, ret>>
    /\ UNCHANGED <<force, target, waited>>
    /\ UNCHANGED <<up, server_up, rpc_server, rpc_funcs, log, handlers,
                   dll_dict, rpc_client, interpreter_session, p>>
    /\ UNCHANGED <<guestVars, routineVars>>
    /\ UNCHANGED <<created, returned, lastReq, tsteps, termDone, guestOpInvoked>>

\* The stage check as it would be if stage 2 were never fired up.
StageCheckSkips ==
    /\ pc = "stage_check"
    /\ pc' = Body(op.name)
    /\ UNCHANGED <<op, ret, force, target, waited>>
    /\ UNCHANGED <<clientVars, guestVars, histVars, routineVars>>

\* "If in stage 1, fire up stage 2": lines 67-68, 76-77, ..., 164-165, 221-222.
StageCheck ==
    /\ pc = "stage_check"
    /\ pc' = IF stage = 1 THEN "s2_launch" ELSE Body(op.name)
    /\ UNCHANGED <<op, ret, force, target, waited>>
    /\ UNCHANGED <<clientVars, guestVars, histVars, routineVars>>

\* ------------------------------------------------------------- operations

\* The main thread calls a guest-dependent operation.  A call that would launch
\* an interpreter is made only while the model's launch bound allows it.
CallOp(name, dll, kind) ==
    /\ pc = "idle"
    /\ stage = 1 => Len(guests) < MaxLaunch
    /\ op' = [name |-> name, dll |-> dll, kind |-> kind]
    /\ pc' = IF name \in PathOps THEN "path_check" ELSE "stage_check"
    /\ ret' = NoRet
    /\ lastReq' = NoReq
    /\ guestOpInvoked' = TRUE
    /\ UNCHANGED <<force, target, waited, clientVars, guestVars, routineVars>>
    /\ UNCHANGED <<created, returned, tsteps, s2steps, termDone>>

\* A forward request goes out on rpc_client.
Request(method) == lastReq' = [method |-> method, stage |-> stage]

\* Line 168 as it would be if the table were never consulted.
AlreadyTouchedNever(n) == FALSE

\* Line 168.
AlreadyTouched(n) == n \in DOMAIN dll_dict

\* load_library, lines 167-191.
LoadLibraryLookup ==
    /\ pc = "ll_lookup"
    /\ IF AlreadyTouched(op.dll)
         THEN /\ Return(dll_dict[op.dll].obj)
              /\ returned' = [returned EXCEPT ![op.dll] = @ \cup {dll_dict[op.dll].obj}]
         ELSE /\ IF op.kind \notin KnownDllTypes
                   THEN Raise("ValueError: unknown dll type")
                   ELSE pc' = "ll_rpc" /\ UNCHANGED <<op, ret>>
              /\ UNCHANGED returned
    /\ UNCHANGED <<force, target, waited, clientVars, guestVars, routineVars>>
    /\ UNCHANGED <<created, lastReq, tsteps, s2steps, termDone, guestOpInvoked>>

\* Line 207 as it would be if the new handle were not kept.
StoreHandleForgets(n, h) == dll_dict

\* Line 207: the new handle is put into the table.
StoreHandle(n, h) == (n :> h) @@ dll_dict

\* Where load_library is while the call of line 196 has gone out and its outcome
\* is not handled yet: the guest loaded the library, failed to (OSError), or
\* is gone (EOFError).
LoadLibraryWaiting == {"ll_loaded", "ll_oserror", "ll_eof"}

\* load_library, lines 193-196: the request goes out and the guest handles it;
\* it loads the library or fails; a guest that is gone answers nothing.  The
\* caller is still inside the call of line 196.
LoadLibrarySend ==
    /\ pc = "ll_rpc"
    /\ Request("load_library")
    /\ \/ /\ Serving(rpc_client)
          /\ guestLoads' = [guestLoads EXCEPT ![op.dll] = @ + 1]
          /\ pc' = "ll_loaded"
       \/ /\ Serving(rpc_client)
          /\ pc' = "ll_oserror"
          /\ UNCHANGED guestLoads
       \/ /\ ~Serving(rpc_client)
          /\ pc' = "ll_eof"
          /\ UNCHANGED guestLoads
    /\ UNCHANGED <<op, ret, force, target, waited, clientVars>>
    /\ UNCHANGED <<guests, interpTerminated, routineVars>>
    /\ UNCHANGED <<created, returned, tsteps, s2steps, termDone, guestOpInvoked>>

\* Lines 196-213 as they would be if a handle were stored although the guest
\* failed to load the library.
LoadLibraryReplyStoresFailed ==
    /\ pc \in LoadLibraryWaiting
    /\ CASE pc = "ll_loaded" ->
              /\ dll_dict' = StoreHandle(op.dll, [kind |-> op.kind, obj |-> NewObj(op.dll)])
              /\ created' = [created EXCEPT ![op.dll] = @ \cup {NewObj(op.dll)}]
              /\ returned' = [returned EXCEPT ![op.dll] = @ \cup {NewObj(op.dll)}]
              /\ Return(NewObj(op.dll))
         [] pc = "ll_oserror" ->
              /\ Raise("OSError")
              /\ dll_dict' = StoreHandle(op.dll, [kind |-> op.kind, obj |-> NewObj(op.dll)])
              /\ created' = [created EXCEPT ![op.dll] = @ \cup {NewObj(op.dll)}]
              /\ UNCHANGED returned
         [] OTHER ->
              /\ Raise("EOFError")
              /\ UNCHANGED <<dll_dict, created, returned>>
    /\ UNCHANGED <<force, target, waited>>
    /\ UNCHANGED <<up, stage, server_up, rpc_server, rpc_funcs, log, handlers,
                   rpc_client, interpreter_session, p>>
    /\ UNCHANGED <<guestVars, routineVars>>
    /\ UNCHANGED <<lastReq, tsteps, s2steps, termDone, guestOpInvoked>>

\* load_library, lines 196-213: the call of line 196 ends.  The handle of the
\* loaded library is stored and returned; the guest's OSError is re-raised
\* (198-204); the EOFError of a guest that is gone is not caught.
LoadLibraryReply ==
    /\ pc \in LoadLibraryWaiting
    /\ CASE pc = "ll_loaded" ->
              /\ dll_dict' = StoreHandle(op.dll, [kind |-> op.kind, obj |-> NewObj(op.dll)])
              /\ created' = [created EXCEPT ![op.dll] = @ \cup {NewObj(op.dll)}]
              /\ returned' = [returned EXCEPT ![op.dll] = @ \cup {NewObj(op.dll)}]
              /\ Return(NewObj(op.dll))
         [] pc = "ll_oserror" ->
              /\ Raise("OSError")
              /\ UNCHANGED <<dll_dict, created, returned>>
         [] OTHER ->
              /\ Raise("EOFError")
              /\ UNCHANGED <<dll_dict, created, returned>>
    /\ UNCHANGED <<force, target, waited>>
    /\ UNCHANGED <<up, stage, server_up, rpc_server, rpc_funcs, log, handlers,
                   rpc_client, interpreter_session, p>>
    /\ UNCHANGED <<guestVars, routineVars>>
    /\ UNCHANGED <<lastReq, tsteps, s2steps, termDone, guestOpInvoked>>

\* "Ask the server": lines 71, 80, 89, 98, 107, 116, 125, 225, 237.
OpRpc ==
    /\ pc = "op_rpc"
    /\ Request(op.name)
    /\ IF Serving(rpc_client) THEN Return(NoObj) ELSE Raise("EOFError")
    /\ UNCHANGED <<force, target, waited, clientVars, guestVars, routineVars>>
    /\ UNCHANGED <<created, returned, tsteps, s2steps, termDone, guestOpInvoked>>

\* path_unix_to_wine / path_wine_to_unix, lines 217-218 and 229-230.
PathCheck ==
    /\ pc = "path_check"
    /\ IF op.kind # "str"
         THEN Raise("TypeError: in_path must by of type str")
         ELSE pc' = "stage_check" /\ UNCHANGED <<op, ret>>
    /\ UNCHANGED <<force, target, waited, clientVars, guestVars, histVars, routineVars>>

\* ctypes_CFUNCTYPE / ctypes_WINFUNCTYPE, lines 133-142 and 150-159.
FuncTypeKw ==
    /\ pc = "cb_kw"
    /\ IF op.kind # "kw_ok"
         THEN Raise("ValueError: unexpected keyword argument(s)")
         ELSE Return(NoObj)
    /\ UNCHANGED <<force, target, waited, clientVars, guestVars, histVars, routineVars>>

\* -------------------------------------------------------------- terminate

\* terminate is called by the program, by a signal handler or by the at-exit hook.
CallTerminate(src) ==
    /\ pc = "idle"
    /\ src = "explicit" \/ src \in handlers
    /\ op' = [name |-> "terminate", dll |-> "", kind |-> src]
    /\ pc' = "t_entry"
    /\ ret' = NoRet
    /\ lastReq' = NoReq
    /\ UNCHANGED <<force, target, waited, clientVars, guestVars, routineVars>>
    /\ UNCHANGED <<created, returned, tsteps, s2steps, termDone, guestOpInvoked>>

\* Line 253 as it would be without the guard.
SessionStillUpAlways == TRUE

\* Line 253.
SessionStillUp == up

\* terminate, lines 252-260.
TerminateEntry ==
    /\ pc = "t_entry"
    /\ IF ~SessionStillUp
         THEN /\ Return(NoObj)
              /\ termDone' = (IF termDone = 0 THEN 1 ELSE 2)
              /\ UNCHANGED tsteps
         ELSE /\ tsteps' = <<IF stage = 2 THEN "enter2" ELSE "enter1">>
              /\ pc' = IF stage = 2 THEN "t_send" ELSE "t_rpc_server"
              /\ UNCHANGED <<op, ret, termDone>>
    /\ UNCHANGED <<force, target, waited, clientVars, guestVars, routineVars>>
    /\ UNCHANGED <<created, returned, lastReq, s2steps, guestOpInvoked>>

\* terminate, lines 262-273: the terminate request; the guest may close the
\* socket before it replies, and a guest that is gone replies nothing (EOFError).
\* eofRaises: the EOFError is not caught.
TerminateSendTo(next, eofRaises) ==
    /\ pc = "t_send"
    /\ Request("terminate")
    /\ \/ /\ Serving(rpc_client)
          /\ guests' = [guests EXCEPT ![rpc_client] = "stopping"]
          /\ \/ /\ tsteps' = Append(tsteps, "send")
                /\ pc' = next /\ UNCHANGED <<op, ret>>
             \/ /\ tsteps' = Append(tsteps, "send_eof")
                /\ IF eofRaises THEN Raise("EOFError")
                                ELSE pc' = next /\ UNCHANGED <<op, ret>>
       \/ /\ ~Serving(rpc_client)
          /\ UNCHANGED guests
          /\ tsteps' = Append(tsteps, "send_eof")
          /\ IF eofRaises THEN Raise("EOFError")
                          ELSE pc' = next /\ UNCHANGED <<op, ret>>
    /\ target' = FALSE
    /\ UNCHANGED <<force, waited, clientVars, guestLoads, interpTerminated, routineVars>>
    /\ UNCHANGED <<created, returned, s2steps, termDone, guestOpInvoked>>

\* Lines 262-273 as they would be without the wait of line 273.
TerminateSendNoWait == TerminateSendTo("t_rpc_server", FALSE)

\* Lines 262-273 as they would be without the except clause of line 267.
TerminateSendEofRaises == TerminateSendTo("wait_enter", TRUE)

\* terminate, lines 262-273.
TerminateSend == TerminateSendTo("wait_enter", FALSE)

\* terminate, lines 275-276: the interpreter session is destructed.
TerminateInterpreter ==
    /\ pc = "t_interp"
    /\ interpTerminated' = interpTerminated \cup {interpreter_session}
    /\ guests' = [guests EXCEPT ![interpreter_session] =
                      IF @ = "down" THEN "down" ELSE "dead"]
    /\ tsteps' = Append(tsteps, "interp")
    /\ pc' = "t_rpc_server"
    /\ UNCHANGED <<op, ret, force, target, waited, clientVars, guestLoads, routineVars>>
    /\ UNCHANGED <<created, returned, lastReq, s2steps, termDone, guestOpInvoked>>

\* terminate, lines 278-279: the callback server is terminated.
TerminateRpcServer ==
    /\ pc = "t_rpc_server"
    /\ rpc_server' = "terminated"
    /\ tsteps' = Append(tsteps, "rpc_server")
    /\ pc' = "t_log"
    /\ UNCHANGED <<op, ret, force, target, waited>>
    /\ UNCHANGED <<up, stage, server_up, rpc_funcs, log, handlers,
                   dll_dict, rpc_client, interpreter_session, p>>
    /\ UNCHANGED <<guestVars, routineVars>>
    /\ UNCHANGED <<created, returned, lastReq, s2steps, termDone, guestOpInvoked>>

\* terminate, lines 281-285: the log is terminated.
TerminateLog ==
    /\ pc = "t_log"
    /\ log' = "closed"
    /\ tsteps' = Append(tsteps, "log")
    /\ pc' = "t_down"
    /\ UNCHANGED <<op, ret, force, target, waited>>
    /\ UNCHANGED <<up, stage, server_up, rpc_server, rpc_funcs, handlers,
                   dll_dict, rpc_client, interpreter_session, p>>
    /\ UNCHANGED <<guestVars, routineVars>>
    /\ UNCHANGED <<created, returned, lastReq, s2steps, guestOpInvoked, termDone>>

\* Line 288.
MarkDown == FALSE

\* terminate, lines 287-288: the session is down; terminate returns.
TerminateDown ==
    /\ pc = "t_down"
    /\ up' = MarkDown
    /\ tsteps' = Append(tsteps, "down")
    /\ termDone' = (IF termDone = 0 THEN 1 ELSE 2)
    /\ Return(NoObj)
    /\ UNCHANGED <<force, target, waited>>
    /\ UNCHANGED <<stage, server_up, rpc_server, rpc_funcs, log, handlers,
                   dll_dict, rpc_client, interpreter_session, p>>
    /\ UNCHANGED <<guestVars, routineVars>>
    /\ UNCHANGED <<created, returned, lastReq, s2steps, guestOpInvoked>>

\* ------------------------------------------------------------------ guests

\* A launched guest opens its forward endpoint.
GuestListen(g) ==
    /\ guests[g] = "starting"
    /\ guests' = [guests EXCEPT ![g] = "listening"]
    /\ UNCHANGED <<mainVars, clientVars, guestLoads, interpTerminated, histVars, routineVars>>

\* __set_server_status__(True), lines 374-377, called by a guest that is ready
\* through the function registered at lines 399-401.
GuestReportUp(g) ==
    /\ guests[g] = "listening"
    /\ rpc_server = "running" /\ "set_server_status" \in rpc_funcs
    /\ guests' = [guests EXCEPT ![g] = "up"]
    /\ server_up' = TRUE
    /\ UNCHANGED <<up, stage, rpc_server, rpc_funcs, log, handlers,
                   dll_dict, rpc_client, interpreter_session, p>>
    /\ UNCHANGED <<mainVars, guestLoads, interpTerminated, histVars, routineVars>>

\* __set_server_status__(False), lines 374-377, called by a guest that was told
\* to terminate; without a reverse endpoint the report is lost.
GuestReportDown(g) ==
    /\ guests[g] = "stopping"
    /\ guests' = [guests EXCEPT ![g] = "down"]
    /\ server_up' = IF rpc_server = "running" /\ "set_server_status" \in rpc_funcs
                      THEN FALSE ELSE server_up
    /\ UNCHANGED <<up, stage, rpc_server, rpc_funcs, log, handlers,
                   dll_dict, rpc_client, interpreter_session, p>>
    /\ UNCHANGED <<mainVars, guestLoads, interpTerminated, histVars, routineVars>>

\* A guest process dies or hangs for good without a report.
GuestCrash(g) ==
    /\ guests[g] \in {"starting", "listening", "up", "stopping"}
    /\ guests' = [guests EXCEPT ![g] = "dead"]
    /\ UNCHANGED <<mainVars, clientVars, guestLoads, interpTerminated, histVars, routineVars>>

\* ======================================================== routine (guest)

\* The routine objects of the guest.
Routines == {"r1", "r2"}

\* Type descriptions as the client ships them: f fundamental, s struct,
\* p pointer flag, t type name; a struct carries its fields, a field its name n.
TInt == [f |-> TRUE, s |-> FALSE, p |-> FALSE, t |-> "c_int", fields |-> <<>>]
TCharP == [f |-> TRUE, s |-> FALSE, p |-> TRUE, t |-> "c_char", fields |-> <<>>]
TBogus == [f |-> TRUE, s |-> FALSE, p |-> FALSE, t |-> "c_bogus", fields |-> <<>>]
TOther == [f |-> FALSE, s |-> FALSE, p |-> FALSE, t |-> "LP_LP_c_int", fields |-> <<>>]
FieldX == [n |-> "x", f |-> TRUE, s |-> FALSE, p |-> FALSE, t |-> "c_int", fields |-> <<>>]
FieldY == [n |-> "y", f |-> TRUE, s |-> FALSE, p |-> FALSE, t |-> "c_double", fields |-> <<>>]
TPoint == [f |-> FALSE, s |-> TRUE, p |-> FALSE, t |-> "Point", fields |-> <<FieldX, FieldY>>]
TPointP == [f |-> FALSE, s |-> TRUE, p |-> TRUE, t |-> "Point", fields |-> <<FieldX, FieldY>>]
\* The name Point again, with another field list.
TPointShort == [f |-> FALSE, s |-> TRUE, p |-> FALSE, t |-> "Point", fields |-> <<FieldY>>]
\* A struct with a field that is neither fundamental nor struct.
FieldZ == [n |-> "z", f |-> FALSE, s |-> FALSE, p |-> FALSE, t |-> "LP_LP_c_int", fields |-> <<>>]
TOdd == [f |-> FALSE, s |-> TRUE, p |-> FALSE, t |-> "Odd", fields |-> <<FieldX, FieldZ>>]
\* A description tagged fundamental whose name is a function of ctypes.
TSizeof == [f |-> TRUE, s |-> FALSE, p |-> FALSE, t |-> "sizeof", fields |-> <<>>]

\* The argument lists and return types the model registers.
RegArgLists == {<<>>, <<TCharP>>, <<TPoint>>, <<TInt, TOther>>, <<TPointP, TBogus>>}
RegResTypes == {TInt, TPoint, TBogus}

\* The registrations the decoding of type descriptions is examined with: pairs
\* of an argument list and a return type.
DecodeCalls == {<<<<TInt, TOther>>, TInt>>, <<<<TOdd>>, TInt>>,
                <<<<TPoint>>, TInt>>, <<<<TPointShort>>, TInt>>,
                <<<<TCharP>>, TPoint>>, <<<<TPointP>>, TSizeof>>,
                <<<<TSizeof>>, TInt>>, <<<<>>, TBogus>>}

\* Descriptions of structs with a field that is a struct: by value, as pointer,
\* and two levels deep.
FieldInner == [n |-> "inner", f |-> FALSE, s |-> TRUE, p |-> FALSE, t |-> "Point",
               fields |-> <<FieldX, FieldY>>]
FieldInnerP == [n |-> "inner", f |-> FALSE, s |-> TRUE, p |-> TRUE, t |-> "Point",
                fields |-> <<FieldX, FieldY>>]
TOuter == [f |-> FALSE, s |-> TRUE, p |-> FALSE, t |-> "Outer", fields |-> <<FieldX, FieldInner>>]
TOuterP == [f |-> FALSE, s |-> TRUE, p |-> FALSE, t |-> "OuterP", fields |-> <<FieldInnerP, FieldY>>]
FieldMid == [n |-> "mid", f |-> FALSE, s |-> TRUE, p |-> FALSE, t |-> "Outer",
             fields |-> <<FieldX, FieldInner>>]
TDeep == [f |-> FALSE, s |-> TRUE, p |-> FALSE, t |-> "Deep", fields |-> <<FieldMid>>]

\* The registrations nested structs are examined with.
NestedCalls == {<<<<TOuter>>, TInt>>, <<<<TOuterP>>, TInt>>, <<<<TDeep>>, TInt>>,
                <<<<TPoint>>, TInt>>, <<<<TPoint, TOuter>>, TInt>>, <<<<TInt>>, TPoint>>}

\* Names getattr(ctypes, name) finds: the simple types, and other objects of ctypes.
CtypesSimpleTypes == {"c_int", "c_int16", "c_char", "c_double", "c_void_p"}
CtypesOtherAttrs == {"sizeof", "CDLL", "POINTER"}

CInt == [kind |-> "simple", name |-> "c_int"]
Pointer(ty) == [kind |-> "pointer", to |-> ty]
NoType == [kind |-> "none"]
Ok(ty, dt) == [ok |-> TRUE, ty |-> ty, dt |-> dt, err |-> ""]
Fail(err, dt) == [ok |-> FALSE, ty |-> NoType, dt |-> dt, err |-> err]

\* __unpack_type_fundamental_dict__, lines 131-137.  dt is self.datatypes,
\* passed through.
UnpackFundamental(d, dt) ==
    IF d.t \notin CtypesSimpleTypes \cup CtypesOtherAttrs
      THEN Fail("AttributeError", dt)
      ELSE LET base == IF d.t \in CtypesSimpleTypes
                         THEN [kind |-> "simple", name |-> d.t]
                         ELSE [kind |-> "object", name |-> d.t]
           IN  IF d.p
                 THEN IF base.kind = "simple" THEN Ok(Pointer(base), dt)
                                              ELSE Fail("TypeError", dt)
                 ELSE Ok(base, dt)

\* One field of __unpack_type_struct_dict_generator__, lines 161-187: the struct
\* branch calls self.__unpack_struct_dict__, which the class does not define.
UnpackField(field, dt) ==
    IF field.f THEN UnpackFundamental(field, dt)
    ELSE IF field.s THEN Fail("AttributeError", dt)
    ELSE Ok(CInt, dt)

\* Lines 153-199 as they would be if the fields were collected in reverse.
UnpackStructGeneratorReversed(d, dt, r) ==
    LET n == Len(d.fields)
        fs == [i \in 1..n |-> UnpackField(d.fields[i], dt)]
    IN  IF \E i \in 1..n : ~fs[i].ok \/ fs[i].ty.kind = "object"
          THEN Fail("AttributeError", dt)
          ELSE Ok(NoType,
                  (d.t :> [kind |-> "struct", name |-> d.t, owner |-> r,
                           fields |-> [i \in 1..n |->
                                          <<d.fields[n + 1 - i].n, fs[n + 1 - i].ty>>]]) @@ dt)

\* __unpack_type_struct_dict_generator__, lines 153-199, for routine r: the fields
\* in their order, then the new Structure class, stored under the struct's name.
UnpackStructGenerator(d, dt, r) ==
    LET fs == [i \in 1..Len(d.fields) |-> UnpackField(d.fields[i], dt)]
        bad == {i \in 1..Len(d.fields) : ~fs[i].ok}
        first == CHOOSE i \in bad : \A j \in bad : i <= j
        objs == {i \in 1..Len(d.fields) : fs[i].ty.kind = "object"}
    IN  IF bad # {} THEN Fail(fs[first].err, dt)
        ELSE IF objs # {} THEN Fail("TypeError", dt)
        ELSE Ok(NoType,
                (d.t :> [kind |-> "struct", name |-> d.t, owner |-> r,
                         fields |-> [i \in 1..Len(d.fields) |->
                                        <<d.fields[i].n, fs[i].ty>>]]) @@ dt)

\* __unpack_type_struct_dict__, lines 140-150.
UnpackStruct(d, dt, r) ==
    LET gen == IF d.t \notin DOMAIN dt THEN UnpackStructGenerator(d, dt, r)
                                        ELSE Ok(NoType, dt)
    IN  IF ~gen.ok THEN gen
        ELSE IF d.p THEN Ok(Pointer(gen.dt[d.t]), gen.dt)
        ELSE Ok(gen.dt[d.t], gen.dt)

\* __unpack_type_dict__, lines 109-128.
UnpackTypeDict(d, dt, r) ==
    IF d.f THEN UnpackFundamental(d, dt)
    ELSE IF d.s THEN UnpackStruct(d, dt, r)
    ELSE Ok(CInt, dt)

\* The list comprehension of line 93: the descriptions are decoded in order; the
\* first failure ends it.  tys are the types decoded so far.
RECURSIVE UnpackList(_, _, _, _)
UnpackList(ds, dt, r, tys) ==
    IF ds = <<>> THEN [ok |-> TRUE, tys |-> tys, dt |-> dt, err |-> ""]
    ELSE LET one == UnpackTypeDict(Head(ds), dt, r)
         IN  IF ~one.ok THEN [ok |-> FALSE, tys |-> tys, dt |-> one.dt, err |-> one.err]
             ELSE UnpackList(Tail(ds), one.dt, r, Append(tys, one.ty))

\* handler.argtypes is None until it is set.
ArgsNone == [none |-> TRUE, tys |-> <<>>]
ArgsOf(tys) == [none |-> FALSE, tys |-> tys]
DictsNone == [none |-> TRUE, dicts |-> <<>>]
DictsOf(ds) == [none |-> FALSE, dicts |-> ds]
NoCall == [routine |-> "none", status |-> "none", err |-> "", argtypes |-> <<>>,
           restype |-> TInt, prev_argtypes |-> ArgsNone, prev_restype |-> CInt]

\* The assignment to handler.argtypes in line 93: ctypes takes a list of types
\* only, any other object raises TypeError and the attribute keeps its value.
ArgtypesAccepted(tys) == \A i \in 1..Len(tys) : tys[i].kind # "object"

\* register_argtype_and_restype, lines 86-106, on routine r.
RegisterArgtypeAndRestype(r, argtypes, restype) ==
    LET u == UnpackList(argtypes, datatypes[r], r, <<>>)
        a == IF u.ok /\ ~ArgtypesAccepted(u.tys)
               THEN [u EXCEPT !.ok = FALSE, !.err = "TypeError"]
               ELSE u
        rt == UnpackTypeDict(restype, a.dt, r)
        call == [routine |-> r, status |-> "ok", err |-> "", argtypes |-> argtypes,
                 restype |-> restype, prev_argtypes |-> h_argtypes[r],
                 prev_restype |-> h_restype[r]]
    IN  /\ r_argtypes' = [r_argtypes EXCEPT ![r] = DictsOf(argtypes)]
        /\ IF ~a.ok
             THEN /\ datatypes' = [datatypes EXCEPT ![r] = a.dt]
                  /\ r_last' = [call EXCEPT !.status = "raise", !.err = a.err]
                  /\ UNCHANGED <<h_argtypes, r_restype, h_restype>>
             ELSE /\ h_argtypes' = [h_argtypes EXCEPT ![r] = ArgsOf(a.tys)]
                  /\ r_restype' = [r_restype EXCEPT ![r] = DictsOf(<<restype>>)]
                  /\ datatypes' = [datatypes EXCEPT ![r] = rt.dt]
                  /\ IF ~rt.ok
                       THEN /\ r_last' = [call EXCEPT !.status = "raise", !.err = rt.err]
                            /\ UNCHANGED h_restype
                       ELSE /\ h_restype' = [h_restype EXCEPT ![r] = rt.ty]
                            /\ r_last' = call
        /\ UNCHANGED <<mainVars, clientVars, guestVars, histVars, r_attach, memsyncVars, auxVars>>

\* The names attached to.
AttachNames == Routines \cup {"no_such_routine"}
NoAttach == [name |-> "", status |-> "none", err |-> ""]

\* Lines 73 and 78 end in a `%` without a right operand: the module does not
\* compile, and importing it raises SyntaxError before any line of it runs.
AttachFailure == "SyntaxError"

\* routine_server_class(dll, name), lines 45-83, as the module stands: for every
\* name, exported or not, the failure of the import; no routine object results.
RoutineAttach(name) ==
    /\ r_attach' = [name |-> name, status |-> "raise", err |-> AttachFailure]
    /\ UNCHANGED <<datatypes, r_argtypes, r_restype>>
    /\ UNCHANGED <<h_argtypes, h_restype, r_last, memsyncVars, auxVars>>
    /\ UNCHANGED <<mainVars, clientVars, guestVars, histVars>>

\* The registrations made on attached routines.
AttachCalls == {<<<<>>, TInt>>, <<<<TPoint>>, TInt>>, <<<<TCharP>>, TBogus>>}

\* ======================================================= memsync attribute

\* The routine handles of the client that take a memsync attribute.
MemsyncRoutines == {"sub_ints", "sum_ints"}

\* Values assigned to a memsync attribute: a list, a dict or a tuple, holding
\* no, one or two directives.
MemsyncValues ==
    [kind : {"list", "dict", "tuple"}, items : {<<>>, <<"d1">>, <<"d1", "d2">>}]
EmptyList == [kind |-> "list", items |-> <<>>]
MemsyncSyntax == "data_memsyncsyntax_error: memsync attribute must be a list"
NoMemsyncOp == [op |-> "none", target |-> "", value |-> EmptyList,
                status |-> "none", err |-> ""]

\* The validation as it would be if every value passed for a list.
IsListAlways(v) == TRUE

\* "memsync attribute must be a list".
IsList(v) == v.kind = "list"

\* routine.memsync = v: a value that is not a list is rejected at the
\* assignment and the attribute keeps its value.
SetRoutineMemsync(h, v) ==
    /\ IF IsList(v)
         THEN /\ m_routine' = [m_routine EXCEPT ![h] = v]
              /\ m_last' = [op |-> "set_routine", target |-> h, value |-> v,
                            status |-> "ok", err |-> ""]
         ELSE /\ m_last' = [op |-> "set_routine", target |-> h, value |-> v,
                            status |-> "raise", err |-> MemsyncSyntax]
              /\ UNCHANGED m_routine
    /\ UNCHANGED <<m_callback, r_argtypes, r_restype, h_argtypes, h_restype,
                   datatypes, r_last, r_attach, auxVars>>
    /\ UNCHANGED <<mainVars, clientVars, guestVars, histVars>>

\* callback_type.memsync = v: the function type takes any value.
SetCallbackMemsync(v) ==
    /\ m_callback' = v
    /\ m_last' = [op |-> "set_callback", target |-> "conveyor_belt", value |-> v,
                  status |-> "ok", err |-> ""]
    /\ UNCHANGED <<m_routine, r_argtypes, r_restype, h_argtypes, h_restype,
                   datatypes, r_last, r_attach, auxVars>>
    /\ UNCHANGED <<mainVars, clientVars, guestVars, histVars>>

\* data.pack_definition_memsync(callback_type.memsync): a value that is not a
\* list is rejected.
PackDefinitionMemsync ==
    /\ m_last' = [op |-> "pack_callback", target |-> "conveyor_belt",
                  value |-> m_callback,
                  status |-> IF IsList(m_callback) THEN "ok" ELSE "raise",
                  err |-> IF IsList(m_callback) THEN "" ELSE MemsyncSyntax]
    /\ UNCHANGED <<m_routine, m_callback, r_argtypes, r_restype, h_argtypes,
                   h_restype, datatypes, r_last, r_attach, auxVars>>
    /\ UNCHANGED <<mainVars, clientVars, guestVars, histVars>>

\* ============================================== forward call with a buffer

\* The caller's buffer holds BufferLength bytes.
BufferLength == 3
\* The bytes of the model: two letters and the zero byte.
Chars == {"a", "e"}
NUL == "nul"
\* The strings that fit the buffer together with their terminator.
StringsThatFit == UNION {[1..k -> Chars] : k \in 0..(BufferLength - 1)}

\* create_string_buffer(BUFFER_LENGTH): zero bytes.
CreateStringBuffer == [i \in 1..BufferLength |-> NUL]
\* string_buffer.value = s: the bytes of s, then a zero byte.
SetValue(buf, s) ==
    [i \in 1..Len(buf) |-> IF i <= Len(s) THEN s[i]
                           ELSE IF i = Len(s) + 1 THEN NUL ELSE buf[i]]
\* The index of the first zero byte of a sequence of bytes, and the string before it.
FirstNul(b) == CHOOSE i \in 1..Len(b) : b[i] = NUL /\ \A j \in 1..(i - 1) : b[j] # NUL
StrLen(b) == FirstNul(b) - 1
Value(b) == SubSeq(b, 1, StrLen(b))

\* Pack of a null-terminated buffer: the string and its terminator are shipped.
PackNullTerminated(b) == SubSeq(b, 1, StrLen(b) + 1)
\* The guest routine: every old letter of the string becomes the new letter.
ReplaceLetter(b, old, new) ==
    [i \in 1..Len(b) |-> IF i <= StrLen(b) /\ b[i] = old THEN new ELSE b[i]]

\* The write-back as it would be if the caller's storage were left alone.
WriteBackNone(buf, reply) == buf

\* Write-back: the returned bytes overwrite the caller's storage in place.
WriteBack(buf, reply) ==
    [i \in 1..Len(buf) |-> IF i <= Len(reply) THEN reply[i] ELSE buf[i]]

NoWb == [pc |-> "idle", s |-> <<>>, old |-> NUL, new |-> NUL,
         buf |-> CreateStringBuffer, payload |-> <<>>, gbuf |-> <<>>]

\* The caller fills a fresh buffer with s and calls the routine; the client packs
\* the buffer and sends the request.
WbCall(s, old, new) ==
    /\ wb.pc \in {"idle", "done"}
    /\ LET buf == SetValue(CreateStringBuffer, s)
       IN  wb' = [pc |-> "sent", s |-> s, old |-> old, new |-> new, buf |-> buf,
                  payload |-> PackNullTerminated(buf), gbuf |-> <<>>]
    /\ UNCHANGED <<mainVars, clientVars, guestVars, histVars>>
    /\ UNCHANGED <<r_argtypes, r_restype, h_argtypes, h_restype, datatypes, r_last,
                   r_attach, memsyncVars, cb, th, frames, pre, par>>

\* The guest unpacks the payload into native memory, runs the routine on it and
\* packs the buffer again for the reply.
WbGuestRun ==
    /\ wb.pc = "sent"
    /\ LET g == ReplaceLetter(wb.payload, wb.old, wb.new)
       IN  wb' = [wb EXCEPT !.pc = "replied", !.gbuf = g,
                            !.payload = PackNullTerminated(g)]
    /\ UNCHANGED <<mainVars, clientVars, guestVars, histVars>>
    /\ UNCHANGED <<r_argtypes, r_restype, h_argtypes, h_restype, datatypes, r_last,
                   r_attach, memsyncVars, cb, th, frames, pre, par>>

\* The client unpacks the reply and writes the buffer back; the call returns.
WbReturn ==
    /\ wb.pc = "replied"
    /\ wb' = [wb EXCEPT !.pc = "done", !.buf = WriteBack(wb.buf, wb.payload)]
    /\ UNCHANGED <<mainVars, clientVars, guestVars, histVars>>
    /\ UNCHANGED <<r_argtypes, r_restype, h_argtypes, h_restype, datatypes, r_last,
                   r_attach, memsyncVars, cb, th, frames, pre, par>>

\* =========================================== forward call with callbacks

\* How many times the guest routine invokes its callback in one forward call.
MaxCallbacks == 3
\* The values the guest passes to the callback.
CbArgs == {1, 2, 3}
NoCb == [pc |-> "idle", n |-> 0, sent |-> <<>>, served |-> <<>>, got |-> <<>>]

\* The host callback of the scenario: it doubles its argument.
HostCallback(x) == 2 * x

\* The client sends the forward request of a routine that will call back n times.
CbCall(n) ==
    /\ cb.pc \in {"idle", "done"}
    /\ cb' = [pc |-> "running", n |-> n, sent |-> <<>>, served |-> <<>>, got |-> <<>>]
    /\ UNCHANGED <<mainVars, clientVars, guestVars, histVars>>
    /\ UNCHANGED <<r_argtypes, r_restype, h_argtypes, h_restype, datatypes, r_last,
                   r_attach, memsyncVars, wb, th, frames, pre, par>>

\* The guest routine invokes the callback: the trampoline sends a reverse
\* request and the guest thread goes on at next.
CbGuestInvokeTo(x, next) ==
    /\ cb.pc = "running" /\ Len(cb.sent) < cb.n
    /\ cb' = [cb EXCEPT !.pc = next, !.sent = Append(@, x)]
    /\ UNCHANGED <<mainVars, clientVars, guestVars, histVars>>
    /\ UNCHANGED <<r_argtypes, r_restype, h_argtypes, h_restype, datatypes, r_last,
                   r_attach, memsyncVars, wb, th, frames, pre, par>>

\* The trampoline as it would be if it did not block for the reply.
CbGuestInvokeNoWait(x) == CbGuestInvokeTo(x, "running")

\* The trampoline blocks the guest thread until the host's handler has replied.
CbGuestInvoke(x) == CbGuestInvokeTo(x, "cb_wait")

\* The reverse endpoint's thread (lines 403-404) serves the oldest reverse
\* request that has no reply yet: the host callback runs and its result is sent.
CbReverseServe ==
    /\ Len(cb.served) < Len(cb.sent)
    /\ cb' = [cb EXCEPT !.served = Append(@, HostCallback(cb.sent[Len(cb.served) + 1]))]
    /\ UNCHANGED <<mainVars, clientVars, guestVars, histVars>>
    /\ UNCHANGED <<r_argtypes, r_restype, h_argtypes, h_restype, datatypes, r_last,
                   r_attach, memsyncVars, wb, th, frames, pre, par>>

\* The reverse reply arrives; the guest routine goes on.
CbGuestResume ==
    /\ cb.pc = "cb_wait" /\ Len(cb.served) = Len(cb.sent)
    /\ cb' = [cb EXCEPT !.pc = "running", !.got = Append(@, cb.served[Len(cb.sent)])]
    /\ UNCHANGED <<mainVars, clientVars, guestVars, histVars>>
    /\ UNCHANGED <<r_argtypes, r_restype, h_argtypes, h_restype, datatypes, r_last,
                   r_attach, memsyncVars, wb, th, frames, pre, par>>

\* The guest routine has made its n invocations and returns: the forward reply
\* is sent.
CbGuestReturn ==
    /\ cb.pc = "running" /\ Len(cb.sent) = cb.n
    /\ cb' = [cb EXCEPT !.pc = "replied"]
    /\ UNCHANGED <<mainVars, clientVars, guestVars, histVars>>
    /\ UNCHANGED <<r_argtypes, r_restype, h_argtypes, h_restype, datatypes, r_last,
                   r_attach, memsyncVars, wb, th, frames, pre, par>>

\* The forward reply is delivered to the client; the call returns.
CbDeliver ==
    /\ cb.pc = "replied"
    /\ cb' = [cb EXCEPT !.pc = "done"]
    /\ UNCHANGED <<mainVars, clientVars, guestVars, histVars>>
    /\ UNCHANGED <<r_argtypes, r_restype, h_argtypes, h_restype, datatypes, r_last,
                   r_attach, memsyncVars, wb, th, frames, pre, par>>

\* ============================================= operations from two threads

\* The threads of the program that call into one session.
Threads == {"t1", "t2"}
NoTh == [pc |-> "idle", dll |-> "", kind |-> "", ret |-> "none", obj |-> NoObj]

\* A thread calls load_library; the session is in stage 2 (line 164), up or
\* not: load_library does not look at `up`.
ThCall(t, n, k) ==
    /\ th[t].pc = "idle"
    /\ stage = 2
    /\ th' = [th EXCEPT ![t] = [pc |-> "lookup", dll |-> n, kind |-> k,
                                ret |-> "none", obj |-> NoObj]]
    /\ guestOpInvoked' = TRUE
    /\ UNCHANGED <<mainVars, clientVars, guestVars>>
    /\ UNCHANGED <<created, returned, lastReq, tsteps, s2steps, termDone>>
    /\ UNCHANGED <<r_argtypes, r_restype, h_argtypes, h_restype, datatypes, r_last,
                   r_attach, memsyncVars, wb, cb, frames, pre, par>>

\* load_library, lines 167-191, in thread t.
ThLookup(t) ==
    /\ th[t].pc = "lookup"
    /\ IF AlreadyTouched(th[t].dll)
         THEN /\ th' = [th EXCEPT ![t].pc = "idle", ![t].ret = "return",
                                  ![t].obj = dll_dict[th[t].dll].obj]
              /\ returned' = [returned EXCEPT ![th[t].dll] = @ \cup {dll_dict[th[t].dll].obj}]
         ELSE /\ IF th[t].kind \notin KnownDllTypes
                   THEN th' = [th EXCEPT ![t].pc = "idle",
                                         ![t].ret = "ValueError: unknown dll type"]
                   ELSE th' = [th EXCEPT ![t].pc = "send"]
              /\ UNCHANGED returned
    /\ UNCHANGED <<mainVars, clientVars, guestVars>>
    /\ UNCHANGED <<created, lastReq, tsteps, s2steps, termDone, guestOpInvoked>>
    /\ UNCHANGED <<r_argtypes, r_restype, h_argtypes, h_restype, datatypes, r_last,
                   r_attach, memsyncVars, wb, cb, frames, pre, par>>

\* Line 196 in thread t: the request goes out on rpc_client and the thread
\* blocks for the reply.  Nothing in load_library keeps a second thread from
\* doing the same meanwhile.
ThSend(t) ==
    /\ th[t].pc = "send"
    /\ Request("load_library")
    /\ th' = [th EXCEPT ![t].pc = "awaiting"]
    /\ UNCHANGED <<mainVars, clientVars, guestVars>>
    /\ UNCHANGED <<created, returned, tsteps, s2steps, termDone, guestOpInvoked>>
    /\ UNCHANGED <<r_argtypes, r_restype, h_argtypes, h_restype, datatypes, r_last,
                   r_attach, memsyncVars, wb, cb, frames, pre, par>>

\* Lines 196-207 in thread t: the call of line 196 ends.  The handle of the
\* loaded library is stored in the table (207); the guest's OSError is re-raised
\* (198-204); the EOFError of a guest that is gone is not caught.
ThReply(t) ==
    /\ th[t].pc = "awaiting"
    /\ \/ /\ Serving(rpc_client)
          /\ guestLoads' = [guestLoads EXCEPT ![th[t].dll] = @ + 1]
          /\ dll_dict' = StoreHandle(th[t].dll, [kind |-> th[t].kind,
                                                 obj |-> NewObj(th[t].dll)])
          /\ created' = [created EXCEPT ![th[t].dll] = @ \cup {NewObj(th[t].dll)}]
          /\ th' = [th EXCEPT ![t].pc = "stored"]
       \/ /\ Serving(rpc_client)
          /\ th' = [th EXCEPT ![t].pc = "idle", ![t].ret = "OSError"]
          /\ UNCHANGED <<guestLoads, dll_dict, created>>
       \/ /\ ~Serving(rpc_client)
          /\ th' = [th EXCEPT ![t].pc = "idle", ![t].ret = "EOFError"]
          /\ UNCHANGED <<guestLoads, dll_dict, created>>
    /\ UNCHANGED <<mainVars, guests, interpTerminated>>
    /\ UNCHANGED <<up, stage, server_up, rpc_server, rpc_funcs, log, handlers,
                   rpc_client, interpreter_session, p>>
    /\ UNCHANGED <<returned, lastReq, tsteps, s2steps, termDone, guestOpInvoked>>
    /\ UNCHANGED <<r_argtypes, r_restype, h_argtypes, h_restype, datatypes, r_last,
                   r_attach, memsyncVars, wb, cb, frames, pre, par>>

\* Lines 209-213 in thread t: after the log line the table is read again and
\* what it holds for the name now is returned.
ThReturn(t) ==
    /\ th[t].pc = "stored"
    /\ th' = [th EXCEPT ![t].pc = "idle", ![t].ret = "return",
                        ![t].obj = dll_dict[th[t].dll].obj]
    /\ returned' = [returned EXCEPT ![th[t].dll] = @ \cup {dll_dict[th[t].dll].obj}]
    /\ UNCHANGED <<mainVars, clientVars, guestVars>>
    /\ UNCHANGED <<created, lastReq, tsteps, s2steps, termDone, guestOpInvoked>>
    /\ UNCHANGED <<r_argtypes, r_restype, h_argtypes, h_restype, datatypes, r_last,
                   r_attach, memsyncVars, wb, cb, frames, pre, par>>

\* ============================================================ configuration

\* The configuration keys of the model and the values the program sets.
ParamKeys == {"timeout_start", "timeout_stop"}
ParamValues == {1, 2, 3}

\* get_parameter, lines 239-241.
GetParameter(key) ==
    /\ pc = "idle" /\ stage >= 1
    /\ par' = [op |-> "get_parameter", key |-> key, value |-> 0, stage |-> stage,
               sent |-> FALSE, status |-> "return", err |-> "", got |-> p[key]]
    /\ UNCHANGED <<mainVars, clientVars, guestVars, histVars>>
    /\ UNCHANGED <<r_argtypes, r_restype, h_argtypes, h_restype, datatypes, r_last,
                   r_attach, memsyncVars, wb, cb, th, frames, pre>>

\* Line 248: in stage 2 the argument of the forward call is the name
\* `parameter`, which is bound nowhere: NameError before anything is sent.
ForwardParameter == [sent |-> FALSE, status |-> "raise", err |-> "NameError"]

\* set_parameter, lines 243-248.
SetParameter(key, value) ==
    /\ pc = "idle" /\ stage >= 1
    /\ p' = [p EXCEPT ![key] = value]
    /\ par' = IF stage > 1
                THEN [op |-> "set_parameter", key |-> key, value |-> value,
                      stage |-> stage, sent |-> ForwardParameter.sent,
                      status |-> ForwardParameter.status, err |-> ForwardParameter.err,
                      got |-> 0]
                ELSE [op |-> "set_parameter", key |-> key, value |-> value,
                      stage |-> stage, sent |-> FALSE,
                      status |-> "return", err |-> "", got |-> 0]
    /\ UNCHANGED <<mainVars, guestVars, histVars>>
    /\ UNCHANGED <<up, stage, server_up, rpc_server, rpc_funcs, log, handlers,
                   dll_dict, rpc_client, interpreter_session>>
    /\ UNCHANGED <<r_argtypes, r_restype, h_argtypes, h_restype, datatypes, r_last,
                   r_attach, memsyncVars, wb, cb, th, frames, pre>>

\* ========================================================= signal handlers

\* Handlers that may run on top of a call that itself is a handler.
MaxReentry == 1

\* Positions inside terminate after the check of line 253, the wait included.
TerminatePositions == {"t_send", "wait_enter", "wait_loop", "wait_sleep", "wait_final",
                       "t_interp", "t_rpc_server", "t_log", "t_down"}

\* The positions with a clock running: time.time() - started_waiting_at of
\* lines 453 and 462 goes on while a handler runs on top of the wait.
TimedPositions == {"wait_loop", "wait_sleep", "wait_final"}

\* Lines 336-337: SIGINT or SIGTERM arrives while terminate runs or while
\* load_library is inside the call of line 196.  The handler, terminate, runs on
\* top of the interrupted call in the main thread; its time is counted from 0.
\* The shutdown steps an interrupted terminate has taken are kept with its frame.
SignalFires(src) ==
    /\ src \in {"SIGINT", "SIGTERM"} \cap handlers
    /\ \/ op.name = "terminate" /\ pc \in TerminatePositions
       \/ op.name = "load_library" /\ pc \in LoadLibraryWaiting
    /\ Len(frames) < MaxReentry
    /\ frames' = <<[pc |-> pc, op |-> op, target |-> target, waited |-> waited,
                    tsteps |-> IF op.name = "terminate" THEN tsteps ELSE <<>>]>>
                    \o frames
    /\ op' = [name |-> "terminate", dll |-> "", kind |-> src]
    /\ pc' = "t_entry"
    /\ tsteps' = <<>>
    /\ waited' = 0
    /\ UNCHANGED <<ret, force, target, clientVars, guestVars>>
    /\ UNCHANGED <<created, returned, lastReq, s2steps, termDone, guestOpInvoked>>
    /\ UNCHANGED <<r_argtypes, r_restype, h_argtypes, h_restype, datatypes, r_last,
                   r_attach, memsyncVars, wb, cb, th, pre, par>>

\* The handler is done.  If it returned, the interrupted call goes on where it
\* was, and a wait it is in has lost the time the handler took; if it raised, the
\* exception ends the interrupted call.
SignalReturn ==
    /\ frames # <<>>
    /\ pc = "idle"
    /\ frames' = Tail(frames)
    /\ tsteps' = Head(frames).tsteps \o tsteps
    /\ IF ret.kind = "raise"
         THEN /\ pc' = IF Head(frames).op.kind = "atexit" THEN "exited" ELSE "idle"
              /\ ret' = [ret EXCEPT !.op = Head(frames).op]
              /\ UNCHANGED <<op, target, waited>>
         ELSE /\ pc' = Head(frames).pc
              /\ op' = Head(frames).op
              /\ target' = Head(frames).target
              /\ waited' = IF Head(frames).pc \in TimedPositions
                              THEN Head(frames).waited + waited
                              ELSE Head(frames).waited
              /\ ret' = NoRet
    /\ UNCHANGED <<force, clientVars, guestVars>>
    /\ UNCHANGED <<created, returned, lastReq, s2steps, termDone, guestOpInvoked>>
    /\ UNCHANGED <<r_argtypes, r_restype, h_argtypes, h_restype, datatypes, r_last,
                   r_attach, memsyncVars, wb, cb, th, pre, par>>

\* The program calls terminate: not from inside a handler.
ProgramCallsTerminate(src) == frames = <<>> /\ CallTerminate(src)

\* The program calls load_library: not from inside a handler.
ProgramCallsLoadLibrary(n, k) == frames = <<>> /\ CallOp("load_library", n, k)

\* ============================================== operations, state recorded

\* The main thread calls a guest-dependent operation, as CallOp; the stage, the
\* names in the library table and the number of launches are noted at the call.
CallOpRecorded(name, dll, kind) ==
    /\ pc = "idle"
    /\ stage = 1 => Len(guests) < MaxLaunch
    /\ op' = [name |-> name, dll |-> dll, kind |-> kind]
    /\ pc' = IF name \in PathOps THEN "path_check" ELSE "stage_check"
    /\ ret' = NoRet
    /\ lastReq' = NoReq
    /\ guestOpInvoked' = TRUE
    /\ pre' = [stage |-> stage, dlls |-> DOMAIN dll_dict, launched |-> Len(guests)]
    /\ UNCHANGED <<force, target, waited, clientVars, guestVars>>
    /\ UNCHANGED <<created, returned, tsteps, s2steps, termDone>>
    /\ UNCHANGED <<r_argtypes, r_restype, h_argtypes, h_restype, datatypes, r_last,
                   r_attach, memsyncVars, wb, cb, th, frames, par>>

\* ========================================================= specifications

\* The session object when __init__ starts (lines 57-62): no field is set yet.
SessionInit ==
    /\ pc = "init1_rpc_server"
    /\ op = [name |-> "__init__", dll |-> "", kind |-> ""]
    /\ ret = NoRet
    /\ force \in BOOLEAN
    /\ target = FALSE
    /\ waited = 0
    /\ up = FALSE
    /\ stage = 0
    /\ server_up = FALSE
    /\ rpc_server = "none"
    /\ rpc_funcs = {}
    /\ log = "none"
    /\ handlers = {}
    /\ dll_dict = <<>>
    /\ rpc_client = 0
    /\ interpreter_session = 0
    /\ p = [timeout_start |-> TimeoutStartSteps, timeout_stop |-> TimeoutStopSteps]
    /\ guests = <<>>
    /\ guestLoads = [n \in Names |-> 0]
    /\ interpTerminated = {}
    /\ created = [n \in Names |-> {}]
    /\ returned = [n \in Names |-> {}]
    /\ lastReq = NoReq
    /\ tsteps = <<>>
    /\ s2steps = <<>>
    /\ termDone = 0
    /\ guestOpInvoked = FALSE

\* The routine objects after routine_server_class.__init__ (lines 45-83).
RoutineInit ==
    /\ r_argtypes = [r \in Routines |-> DictsNone]
    /\ r_restype = [r \in Routines |-> DictsNone]
    /\ h_argtypes = [r \in Routines |-> ArgsNone]
    /\ h_restype = [r \in Routines |-> CInt]
    /\ datatypes = [r \in Routines |-> <<>>]
    /\ r_last = NoCall
    /\ r_attach = NoAttach

\* Routine handles and the callback type before any memsync is assigned.
MemsyncInit ==
    /\ m_routine = [h \in MemsyncRoutines |-> EmptyList]
    /\ m_callback = EmptyList
    /\ m_last = NoMemsyncOp

\* No forward call of a routine has been made.
NoPar == [op |-> "none", key |-> "", value |-> 0, stage |-> 0, sent |-> FALSE,
          status |-> "none", err |-> "", got |-> 0]

NoPre == [stage |-> 0, dlls |-> {}, launched |-> 0]

CallInit ==
    /\ wb = NoWb
    /\ cb = NoCb
    /\ th = [t \in Threads |-> NoTh]
    /\ frames = <<>>
    /\ pre = NoPre
    /\ par = NoPar

Init == SessionInit /\ RoutineInit /\ MemsyncInit /\ CallInit

Next ==
    \/ InitStage1StartRpcServer
    \/ InitStage1State
    \/ InitStage1Register
    \/ \E n \in Names, k \in InputDllTypes : CallOp("load_library", n, k)
    \/ \E name \in SimpleOps : CallOp(name, "", "")
    \/ \E name \in PathOps, a \in {"str", "nonstr"} : CallOp(name, "", a)
    \/ \E name \in FuncTypeOps, kw \in {"kw_ok", "kw_bad"} : CallOp(name, "", kw)
    \/ \E src \in TerminateSources : CallTerminate(src)
    \/ PathCheck
    \/ StageCheck
    \/ InitStage2Launch
    \/ WaitEnter
    \/ WaitLoop
    \/ WaitSleep
    \/ WaitFinal
    \/ InitStage2Connect
    \/ InitStage2Stage
    \/ LoadLibraryLookup
    \/ LoadLibrarySend
    \/ LoadLibraryReply
    \/ OpRpc
    \/ FuncTypeKw
    \/ TerminateEntry
    \/ TerminateSend
    \/ TerminateInterpreter
    \/ TerminateRpcServer
    \/ TerminateLog
    \/ TerminateDown
    \/ \E g \in 1..Len(guests) : GuestListen(g)
    \/ \E g \in 1..Len(guests) : GuestReportUp(g)
    \/ \E g \in 1..Len(guests) : GuestReportDown(g)
    \/ \E g \in 1..Len(guests) : GuestCrash(g)

Spec == Init /\ [][Next]_vars

\* The guest's routine objects alone, on a session that only was constructed.
InitRoutine == Init /\ force = FALSE

NextRoutine ==
    \E r \in Routines, argtypes \in RegArgLists, restype \in RegResTypes :
        RegisterArgtypeAndRestype(r, argtypes, restype)

SpecRoutine == InitRoutine /\ [][NextRoutine]_vars

\* The same routine objects, registering the descriptions of DecodeCalls.
NextDecode ==
    \E r \in Routines, c \in DecodeCalls : RegisterArgtypeAndRestype(r, c[1], c[2])

SpecDecode == InitRoutine /\ [][NextDecode]_vars

\* The same routine objects, registering the descriptions of NestedCalls.
NextNested ==
    \E r \in Routines, c \in NestedCalls : RegisterArgtypeAndRestype(r, c[1], c[2])

SpecNested == InitRoutine /\ [][NextNested]_vars

\* Attaching to routines of a loaded library, and registrations on the routine
\* objects of RoutineInit.
NextAttach ==
    \/ \E name \in AttachNames : RoutineAttach(name)
    \/ \E r \in Routines, c \in AttachCalls : RegisterArgtypeAndRestype(r, c[1], c[2])

SpecAttach == InitRoutine /\ [][NextAttach]_vars

\* Assigning memsync attributes and packing a callback type's memsync.
NextMemsync ==
    \/ \E h \in MemsyncRoutines, v \in MemsyncValues : SetRoutineMemsync(h, v)
    \/ \E v \in MemsyncValues : SetCallbackMemsync(v)
    \/ PackDefinitionMemsync

SpecMemsync == InitRoutine /\ [][NextMemsync]_vars

\* Forward calls of replace_letter_in_null_terminated_string.
NextWriteBack ==
    \/ \E s \in StringsThatFit, old \in Chars \cup {NUL}, new \in Chars \cup {NUL} :
          WbCall(s, old, new)
    \/ WbGuestRun
    \/ WbReturn

SpecWriteBack == InitRoutine /\ [][NextWriteBack]_vars

\* Forward calls of a routine that invokes a callback.
NextCallback ==
    \/ \E n \in 0..MaxCallbacks : CbCall(n)
    \/ \E x \in CbArgs : CbGuestInvoke(x)
    \/ CbReverseServe
    \/ CbGuestResume
    \/ CbGuestReturn
    \/ CbDeliver

SpecCallback == InitRoutine /\ [][NextCallback]_vars

\* The session after session_client_class(force=True) has returned with its
\* guest up.
SessionAtStage2 ==
    /\ pc = "idle" /\ op = NoOp
    /\ ret = [op |-> [name |-> "__init__", dll |-> "", kind |-> ""],
              kind |-> "return", err |-> "", obj |-> NoObj]
    /\ force = TRUE /\ target = TRUE /\ waited = 0
    /\ up = TRUE /\ stage = 2 /\ server_up = TRUE
    /\ rpc_server = "running" /\ rpc_funcs = {"set_server_status"}
    /\ log = "open" /\ handlers = {"atexit", "SIGINT", "SIGTERM"}
    /\ dll_dict = <<>> /\ rpc_client = 1 /\ interpreter_session = 1
    /\ p = [timeout_start |-> TimeoutStartSteps, timeout_stop |-> TimeoutStopSteps]
    /\ guests = <<"up">>
    /\ guestLoads = [n \in Names |-> 0]
    /\ interpTerminated = {}
    /\ created = [n \in Names |-> {}]
    /\ returned = [n \in Names |-> {}]
    /\ lastReq = NoReq
    /\ tsteps = <<>>
    /\ s2steps = <<"launch", "wait_up", "connect", "stage2">>
    /\ termDone = 0
    /\ guestOpInvoked = FALSE

InitAtStage2 == SessionAtStage2 /\ RoutineInit /\ MemsyncInit /\ CallInit

\* The operations that check their arguments, on a session constructed with or
\* without force.
NextFrame ==
    \/ InitStage1StartRpcServer
    \/ InitStage1State
    \/ InitStage1Register
    \/ \E n \in Names, k \in InputDllTypes : CallOpRecorded("load_library", n, k)
    \/ \E name \in PathOps, a \in {"str", "nonstr"} : CallOpRecorded(name, "", a)
    \/ \E name \in FuncTypeOps, kw \in {"kw_ok", "kw_bad"} : CallOpRecorded(name, "", kw)
    \/ PathCheck
    \/ StageCheck
    \/ InitStage2Launch
    \/ WaitEnter
    \/ WaitLoop
    \/ WaitSleep
    \/ WaitFinal
    \/ InitStage2Connect
    \/ InitStage2Stage
    \/ LoadLibraryLookup
    \/ LoadLibrarySend
    \/ LoadLibraryReply
    \/ OpRpc
    \/ FuncTypeKw
    \/ \E g \in 1..Len(guests) : GuestListen(g)
    \/ \E g \in 1..Len(guests) : GuestReportUp(g)
    \/ \E g \in 1..Len(guests) : GuestCrash(g)

SpecFrame == Init /\ [][NextFrame]_vars

\* The configuration read and written on a session constructed with or
\* without force.
NextParameter ==
    \/ InitStage1StartRpcServer
    \/ InitStage1State
    \/ InitStage1Register
    \/ InitStage2Launch
    \/ WaitEnter
    \/ WaitLoop
    \/ WaitSleep
    \/ WaitFinal
    \/ InitStage2Connect
    \/ InitStage2Stage
    \/ \E key \in ParamKeys : GetParameter(key)
    \/ \E key \in ParamKeys, value \in ParamValues : SetParameter(key, value)
    \/ \E g \in 1..Len(guests) : GuestListen(g)
    \/ \E g \in 1..Len(guests) : GuestReportUp(g)
    \/ \E g \in 1..Len(guests) : GuestCrash(g)

SpecParameter == Init /\ [][NextParameter]_vars

\* terminate and load_library with SIGINT/SIGTERM arriving while they run, on a
\* session in stage 2.
NextSignal ==
    \/ \E src \in TerminateSources : ProgramCallsTerminate(src)
    \/ \E n \in Names, k \in InputDllTypes : ProgramCallsLoadLibrary(n, k)
    \/ StageCheck
    \/ LoadLibraryLookup
    \/ LoadLibrarySend
    \/ LoadLibraryReply
    \/ \E src \in TerminateSources : SignalFires(src)
    \/ SignalReturn
    \/ TerminateEntry
    \/ TerminateSend
    \/ WaitEnter
    \/ WaitLoop
    \/ WaitSleep
    \/ WaitFinal
    \/ TerminateInterpreter
    \/ TerminateRpcServer
    \/ TerminateLog
    \/ TerminateDown
    \/ \E g \in 1..Len(guests) : GuestReportDown(g)
    \/ \E g \in 1..Len(guests) : GuestCrash(g)

SpecSignal == InitAtStage2 /\ [][NextSignal]_vars

\* load_library called from two threads on a session in stage 2, with a guest
\* that may fail.
NextThreads ==
    \/ \E t \in Threads, n \in Names, k \in InputDllTypes : ThCall(t, n, k)
    \/ \E t \in Threads : ThLookup(t)
    \/ \E t \in Threads : ThSend(t)
    \/ \E t \in Threads : ThReply(t)
    \/ \E t \in Threads : ThReturn(t)
    \/ \E g \in 1..Len(guests) : GuestCrash(g)

SpecThreads == InitAtStage2 /\ [][NextThreads]_vars

\* ================================================================= claims

IsPrefix(s, t) == Len(s) <= Len(t) /\ \A i \in 1..Len(s) : s[i] = t[i]
Range(s) == {s[i] : i \in 1..Len(s)}

\* The wait loop's positions.
WaitPcs == {"wait_enter", "wait_loop", "wait_sleep", "wait_final"}

\* The shutdown steps of a terminate call, an EOF on the request taken as sent.
ShutdownSteps == [i \in 1..Len(tsteps) |-> IF tsteps[i] = "send_eof" THEN "send" ELSE tsteps[i]]
ShutdownOrderStage2 == <<"enter2", "send", "wait_down", "interp", "rpc_server", "log", "down">>
ShutdownOrderStage1 == <<"enter1", "rpc_server", "log", "down">>
HandshakeOrder == <<"launch", "wait_up", "connect", "stage2">>
StopTimeout == "TimeoutError: session server could not be stopped"
StartTimeout == "TimeoutError: session server did not appear"

\* C1: load_library calls with the same library name that return a handle all
\* return the same handle object, whatever kind the later calls pass.
C1_LoadLibraryIdempotent == \A n \in Names : Cardinality(returned[n]) <= 1

\* C1 witness: a second load_library of a name, passing another kind than the
\* first, has returned the handle of the first without asking the guest.
C1_Witness ==
    /\ ret.op.name = "load_library" /\ ret.kind = "return"
    /\ lastReq = NoReq
    /\ ret.op.dll \in DOMAIN dll_dict
    /\ dll_dict[ret.op.dll].kind # ret.op.kind
    /\ returned[ret.op.dll] = {ret.obj}

\* C2: the guest serves at most one successful load request per library name,
\* and the client constructs and keeps at most one handle per name; a library
\* the guest has loaded is in the table once the call that asked for it is over.
C2_NeverDoubleLoaded ==
    \A n \in Names :
        /\ guestLoads[n] <= 1
        /\ Cardinality(created[n]) <= 1
        /\ n \in DOMAIN dll_dict => created[n] = {dll_dict[n].obj}
        /\ n \in DOMAIN dll_dict => guestLoads[n] = 1
        /\ guestLoads[n] = 1 => \/ n \in DOMAIN dll_dict
                                \/ pc = "ll_loaded" /\ op.dll = n

\* C2 witness: load_library was called again for a library the guest has loaded,
\* and returned without a request to the guest.
C2_Witness ==
    /\ ret.op.name = "load_library" /\ ret.kind = "return"
    /\ lastReq = NoReq
    /\ guestLoads[ret.op.dll] = 1
    /\ \E n \in Names : n # ret.op.dll /\ guestLoads[n] = 1

\* C3: once a terminate call has returned, every step of a further terminate
\* call (whoever calls it) ends the call at once, sends nothing to the guest and
\* leaves the session's fields and the guests as they are.
C3_TerminateIdempotent ==
    [][(termDone > 0 /\ op.name = "terminate" /\ pc' # pc)
         => /\ pc' \in {"idle", "exited"}
            /\ ret'.kind = "return"
            /\ lastReq' = NoReq
            /\ UNCHANGED <<clientVars, guestVars>>]_vars

\* C3 witness: terminate has returned at least twice, last from the at-exit hook.
C3_Witness ==
    /\ termDone = 2
    /\ pc = "exited"
    /\ ret.op.kind = "atexit" /\ ret.kind = "return"
    /\ ~up

\* C4: the shutdown steps of a terminate call are taken in the fixed order: in
\* stage 2 request, wait for down, interpreter, reverse endpoint, log, down; in
\* stage 1 reverse endpoint, log, down, with no request and no wait; the reverse
\* endpoint runs as long as the client waits for the guest's down report.
C4_ShutdownOrder ==
    /\ tsteps # <<>> =>
          IsPrefix(ShutdownSteps, IF tsteps[1] = "enter2" THEN ShutdownOrderStage2
                                                          ELSE ShutdownOrderStage1)
    /\ (pc \in WaitPcs /\ ~target) => rpc_server = "running" /\ log = "open" /\ up
    /\ rpc_server = "terminated" <=> "rpc_server" \in Range(tsteps)
    /\ log = "closed" <=> "log" \in Range(tsteps)
    /\ (stage > 0 /\ ~up) <=> "down" \in Range(tsteps)
    /\ (op.name = "terminate" /\ tsteps # <<>> /\ tsteps[1] = "enter1" /\ pc # "t_entry")
          => lastReq = NoReq

\* C4 witness: a stage-2 terminate call has taken all its steps.
C4_Witness ==
    /\ tsteps = ShutdownOrderStage2
    /\ ~up /\ rpc_server = "terminated" /\ log = "closed" /\ stage = 2

\* C5 as claimed: every terminate call that has ended has left the session down,
\* the reverse endpoint torn down and the log closed.
C5_TerminateAlwaysDown ==
    ret.op.name = "terminate" =>
        ret.kind = "return" /\ ~up /\ rpc_server = "terminated" /\ log = "closed"

\* C5 amended: the wait of a terminate call is bounded by the timeout in force,
\* and a terminate call that has ended either returned and left the session down,
\* the reverse endpoint torn down and the log closed, or, the guest's down report
\* missing after timeout_stop, raised the timeout error in stage 2 and left the
\* session up, the reverse endpoint running and the log open.
C5_TerminateDownOrTimeout ==
    /\ pc = "wait_final" => waited <= TimeoutAfter(target)
    /\ pc \in {"wait_loop", "wait_sleep"} => waited < TimeoutAfter(target)
    /\ ret.op.name = "terminate" =>
          \/ ret.kind = "return" /\ ~up /\ rpc_server = "terminated" /\ log = "closed"
          \/ /\ ret.kind = "raise" /\ ret.err = StopTimeout
             /\ up /\ stage = 2 /\ rpc_server = "running" /\ log = "open"
             /\ tsteps \in {<<"enter2", "send">>, <<"enter2", "send_eof">>}

\* C5 witness: a terminate call waited timeout_stop for the guest and raised.
C5_Witness ==
    /\ ret.op.name = "terminate" /\ ret.kind = "raise"
    /\ waited = p.timeout_stop
    /\ up /\ server_up

\* C6: an EOF on the terminate request is swallowed: the call goes on with the
\* wait and the further shutdown steps; if it raises, it is the wait's timeout,
\* and if it returns, all steps were taken and the session is down.
C6_EofSwallowed ==
    (Len(tsteps) >= 2 /\ tsteps[2] = "send_eof") =>
        /\ (op.name = "terminate" /\ pc # "t_entry") =>
              pc \in WaitPcs \cup {"t_interp", "t_rpc_server", "t_log", "t_down"}
        /\ (ret.op.name = "terminate" /\ ret.kind = "raise") => ret.err = StopTimeout
        /\ (ret.op.name = "terminate" /\ ret.kind = "return") =>
              /\ ShutdownSteps = ShutdownOrderStage2
              /\ ~up /\ rpc_server = "terminated" /\ log = "closed"

\* C6 witness: terminate saw EOF on its request and returned with the session down.
C6_Witness ==
    /\ tsteps = <<"enter2", "send_eof", "wait_down", "interp", "rpc_server", "log", "down">>
    /\ ret.op.name = "terminate" /\ ret.kind = "return"
    /\ ~up

\* C7 as claimed: no forward request is issued while the stage is 1, and no
\* guest interpreter is launched before the first guest-dependent operation.
C7_LazyStage2 ==
    /\ lastReq # NoReq => lastReq.stage = 2
    /\ Len(guests) > 0 => guestOpInvoked

\* C7 amended: no forward request is issued while the stage is 1, the body of a
\* guest-dependent operation runs in stage 2 only, and no guest interpreter is
\* launched before the first guest-dependent operation unless the session was
\* constructed with force (the constructor then runs the stage-2 initialisation).
C7_LazyStage2UnlessForce ==
    /\ lastReq # NoReq => lastReq.stage = 2
    /\ pc \in {"ll_lookup", "ll_rpc", "op_rpc", "cb_kw"} \cup LoadLibraryWaiting => stage = 2
    /\ Len(guests) > 0 => (guestOpInvoked \/ force)

\* C7 witness: a session constructed without force has served a forward request
\* of a guest-dependent operation, with the one interpreter it launched for it.
C7_Witness ==
    /\ ~force /\ guestOpInvoked
    /\ lastReq.method = "ctypes_find_library" /\ lastReq.stage = 2
    /\ ret.kind = "return"
    /\ Len(guests) = 1

\* C8: the handshake is ordered: the reverse endpoint was started, with
\* set_server_status registered, before any interpreter is launched; the wait for
\* up begins after the launch; the forward client is connected only after up was
\* observed; the stage is 2 only after the forward client is connected.
C8_HandshakeOrder ==
    /\ IsPrefix(s2steps, HandshakeOrder)
    /\ Len(guests) > 0 => rpc_server # "none" /\ "set_server_status" \in rpc_funcs
    /\ (pc \in WaitPcs /\ target) =>
          s2steps = <<"launch">> /\ interpreter_session = Len(guests) /\ Len(guests) > 0
    /\ rpc_client # 0 => Len(s2steps) >= 3 /\ rpc_client = interpreter_session
    /\ stage = 2 <=> s2steps = HandshakeOrder
    /\ stage = 2 => rpc_client # 0

\* C8 witness: stage 2 was reached through the whole handshake.
C8_Witness ==
    /\ stage = 2 /\ s2steps = HandshakeOrder
    /\ rpc_client = 1 /\ guests[1] = "up" /\ server_up
    /\ pc = "idle"

\* C9: when the wait for up has timed out, the operation has ended with the
\* timeout error, the forward client is not connected, the stage is 1 and no
\* forward request was issued; the initialisation goes on past the wait only
\* when up was observed.
C9_StartTimeout ==
    /\ (ret.kind = "raise" /\ ret.err = StartTimeout) =>
          /\ stage = 1 /\ rpc_client = 0 /\ lastReq = NoReq
          /\ s2steps = <<"launch">>
          /\ waited = p.timeout_start
    /\ Len(s2steps) >= 2 => s2steps[2] = "wait_up"

\* C9 witness: load_library on a stage-1 session has ended with the timeout error.
C9_Witness ==
    /\ ret.op.name = "load_library"
    /\ ret.kind = "raise" /\ ret.err = StartTimeout
    /\ stage = 1 /\ ~server_up
    /\ dll_dict = <<>>

\* C10: after a register_argtype_and_restype call the native handler holds
\* either the previous argtypes and restype or the new argtypes and restype.
C10_AtomicRebind ==
    r_last.status # "none" =>
        LET r == r_last.routine
            newArgs == UnpackList(r_last.argtypes, datatypes[r], r, <<>>)
            newRes == UnpackTypeDict(r_last.restype, datatypes[r], r)
        IN  \/ /\ h_argtypes[r] = r_last.prev_argtypes
               /\ h_restype[r] = r_last.prev_restype
            \/ /\ newArgs.ok /\ newRes.ok
               /\ h_argtypes[r] = ArgsOf(newArgs.tys)
               /\ h_restype[r] = newRes.ty

\* ------------------------------------------------- decoding of descriptions

\* The descriptions of the last register_argtype_and_restype call.
CallDescrs == Range(r_last.argtypes) \cup {r_last.restype}

\* A description that is neither fundamental nor struct, at top level or as a
\* field of a struct.
Unsupported(d) == ~d.f /\ ~d.s
HasUnsupported(d) ==
    \/ Unsupported(d)
    \/ d.s /\ \E i \in 1..Len(d.fields) : Unsupported(d.fields[i])

\* C11: a register call whose descriptions include one that is neither
\* fundamental nor struct (top-level or a struct field) does not succeed: no
\* such description is decoded as a plain integer type.
C11_NoDegradedFallback ==
    r_last.status = "ok" => \A d \in CallDescrs : ~HasUnsupported(d)

\* The field names of a struct description and of a synthesized struct type,
\* in their order.
FieldNames(d) == [i \in 1..Len(d.fields) |-> d.fields[i].n]
TypeFieldNames(ty) == [i \in 1..Len(ty.fields) |-> ty.fields[i][1]]

\* C12: a register call that decodes a struct description whose name was
\* decoded before in the session with a different field list does not succeed:
\* after a successful call every struct type of the session that bears the name
\* of one of the call's struct descriptions has that description's field list.
C12_TypeConflict ==
    r_last.status = "ok" =>
        \A d \in CallDescrs : d.s =>
            \A r \in Routines : d.t \in DOMAIN datatypes[r] =>
                TypeFieldNames(datatypes[r][d.t]) = FieldNames(d)

\* C13: the struct types two routines of the session hold under one name, made
\* from descriptions with the same fields, are the identical type.
C13_MemoPerSession ==
    \A r1, r2 \in Routines :
        \A n \in DOMAIN datatypes[r1] \cap DOMAIN datatypes[r2] :
            datatypes[r1][n].fields = datatypes[r2][n].fields =>
                datatypes[r1][n] = datatypes[r2][n]

\* The first struct description named n in a sequence of descriptions: the one
\* the decoder meets first.
FirstStruct(ds, n) ==
    LET idx == {i \in 1..Len(ds) : ds[i].s /\ ds[i].t = n}
    IN  ds[CHOOSE i \in idx : \A j \in idx : i <= j]

\* C14: whenever decoding synthesizes a struct type, the type has exactly the
\* fields of the description it is made from: the same number of fields, with
\* the same names, in the declared order.
C14_FieldOrder ==
    [][\A r \in Routines :
         \A n \in DOMAIN datatypes'[r] \ DOMAIN datatypes[r] :
            LET d == FirstStruct(r_last'.argtypes \o <<r_last'.restype>>, n)
            IN  /\ r_last'.routine = r
                /\ Len(datatypes'[r][n].fields) = Len(d.fields)
                /\ TypeFieldNames(datatypes'[r][n]) = FieldNames(d)]_vars

\* C14 witness: the first registration on a routine has decoded the struct
\* Point with the fields x, y and holds a type with the fields x, y in that order.
C14_Witness ==
    /\ r_last.status = "ok" /\ r_last.prev_argtypes = ArgsNone
    /\ r_last.argtypes = <<TPoint>>
    /\ DOMAIN datatypes[r_last.routine] = {"Point"}
    /\ TypeFieldNames(datatypes[r_last.routine]["Point"]) = <<"x", "y">>
    /\ h_argtypes[r_last.routine].tys[1] = datatypes[r_last.routine]["Point"]

\* The levels of pointer indirection of a decoded type.
RECURSIVE Depth(_)
Depth(ty) == IF ty.kind = "pointer" THEN 1 + Depth(ty.to) ELSE 0

\* The pointer depth a description stands for: the flag p is one level; the
\* type named LP_LP_c_int is a pointer to a pointer to c_int.
DescrDepth(d) == IF d.t = "LP_LP_c_int" THEN 2 ELSE IF d.p THEN 1 ELSE 0

\* C15: after a successful register call every decoded argument type and the
\* decoded return type have as many levels of pointer indirection as their
\* descriptions.
C15_PointerDepth ==
    r_last.status = "ok" =>
        LET r == r_last.routine
        IN  /\ \A i \in 1..Len(r_last.argtypes) :
                   Depth(h_argtypes[r].tys[i]) = DescrDepth(r_last.argtypes[i])
            /\ Depth(h_restype[r]) = DescrDepth(r_last.restype)

\* The names of the closed table of fundamental types.
FundamentalTable == CtypesSimpleTypes

\* C16: a register call with a fundamental description whose name is not in
\* the table of fundamental types does not succeed, and no handler ever holds
\* an object of ctypes that is not a type.
C16_ClosedTable ==
    /\ r_last.status = "ok" =>
          \A d \in CallDescrs : d.f => d.t \in FundamentalTable
    /\ \A r \in Routines :
          /\ h_restype[r].kind # "object"
          /\ \A i \in 1..Len(h_argtypes[r].tys) : h_argtypes[r].tys[i].kind # "object"

\* -------------------------------------------------- load_library, failures

\* C17: a load_library call with a kind outside cdll, windll, oledll never
\* returns a handle, whether the name is loaded already or not.
C17_UnknownConvention ==
    ~ /\ ret.op.name = "load_library"
      /\ ret.op.kind \notin KnownDllTypes
      /\ ret.kind = "return"

\* C18: when the guest fails to load the library, load_library raises the
\* failure to the caller and the library table is left as it was, without the
\* name; a load_library of a name that is not in the table, with a known kind,
\* asks the guest.
C18_LoadFailedSurfaces ==
    /\ [](ret.op.name = "load_library" /\ ret.kind = "raise" /\ ret.err = "OSError" =>
             /\ ret.op.dll \notin DOMAIN dll_dict
             /\ lastReq.method = "load_library")
    /\ [][/\ (pc \in LoadLibraryWaiting /\ ret'.kind = "raise") => dll_dict' = dll_dict
          /\ (pc = "ll_lookup" /\ pc' # pc /\ op.dll \notin DOMAIN dll_dict
                /\ op.kind \in KnownDllTypes) => pc' = "ll_rpc"
          /\ (pc = "ll_rpc" /\ pc' # pc) => lastReq'.method = "load_library"]_vars

\* C18 witness: with one library loaded, load_library of the other name has
\* raised the guest's failure and the table holds the first library only.
C18_Witness ==
    /\ pc = "idle"
    /\ ret.op.name = "load_library" /\ ret.kind = "raise" /\ ret.err = "OSError"
    /\ lastReq.method = "load_library"
    /\ DOMAIN dll_dict = Names \ {ret.op.dll}

\* ------------------------------------------------------------ routine attach

\* C19: attaching to a routine name the library does not export fails with
\* the missing-attribute error of the lookup.
C19_AttributeMissing ==
    (r_attach.status # "none" /\ r_attach.name \notin Routines) =>
        r_attach.status = "raise" /\ r_attach.err = "AttributeError"

\* ------------------------------------------------------------------ memsync

\* C20: assigning a value that is not a list to a routine's memsync fails at
\* the assignment with 'memsync attribute must be a list' and no routine ever
\* holds a non-list memsync; packing the memsync definition of a callback type
\* whose memsync is not a list fails with the same error.
C20_MemsyncMustBeList ==
    /\ \A h \in MemsyncRoutines : m_routine[h].kind = "list"
    /\ (m_last.op = "set_routine" /\ m_last.value.kind # "list") =>
          m_last.status = "raise" /\ m_last.err = MemsyncSyntax
    /\ (m_last.op = "pack_callback" /\ m_last.value.kind # "list") =>
          m_last.status = "raise" /\ m_last.err = MemsyncSyntax

\* C20 witness: a dict was assigned to the callback type's memsync and packing
\* its memsync definition has failed with the error.
C20_Witness ==
    /\ m_callback = [kind |-> "dict", items |-> <<>>]
    /\ m_last.op = "pack_callback" /\ m_last.value = m_callback
    /\ m_last.status = "raise" /\ m_last.err = MemsyncSyntax

\* ---------------------------------------------------------------- write-back

\* C21: when a forward call with a character buffer has returned, the caller's
\* buffer holds exactly the string the guest routine left in its buffer, which
\* is the caller's string with every old letter replaced by the new one.
C21_WriteBack ==
    wb.pc = "done" =>
        /\ Value(wb.buf) = Value(wb.gbuf)
        /\ Value(wb.buf) = Value(ReplaceLetter(SetValue(CreateStringBuffer, wb.s),
                                               wb.old, wb.new))

\* C21 witness: the call with the string "ae", replacing a by e, has returned
\* and the caller's buffer reads "ee".
C21_Witness ==
    /\ wb.pc = "done"
    /\ wb.s = <<"a", "e">> /\ wb.old = "a" /\ wb.new = "e"
    /\ Value(wb.buf) = <<"e", "e">>

\* ------------------------------------------------------------------ callbacks

\* C22: a forward call whose routine invokes the callback n times causes n
\* reverse round-trips, never more, and once the forward reply is sent or
\* delivered all n of them are complete: request sent, handler run on the
\* host, reply received by the guest.
C22_CallbackRoundTrips ==
    /\ Len(cb.sent) <= cb.n
    /\ Len(cb.got) <= Len(cb.served) /\ Len(cb.served) <= Len(cb.sent)
    /\ cb.pc \in {"replied", "done"} =>
          /\ Len(cb.sent) = cb.n /\ Len(cb.served) = cb.n /\ Len(cb.got) = cb.n
          /\ \A i \in 1..cb.n : cb.got[i] = HostCallback(cb.sent[i])

\* C22 witness: a forward call with two callback invocations has been
\* delivered to the client after both round-trips.
C22_Witness ==
    /\ cb.pc = "done" /\ cb.n = 2
    /\ cb.sent = <<1, 2>> /\ cb.got = <<2, 4>>

\* ------------------------------------------------------------------- threads

\* C23: at most one forward request of the session awaits its reply at any
\* time, also with operations invoked from two threads.
C23_OneInFlight ==
    Cardinality({t \in Threads : th[t].pc = "awaiting"}) <= 1

\* -------------------------------------------------- construction and lifetime

\* The constructor has returned and nothing was called since.
ConstructorReturned == ret.op.name = "__init__" /\ ret.kind = "return"

\* C24: after the constructor returns without force the reverse endpoint runs,
\* the SIGINT/SIGTERM handlers and the at-exit hook are terminate, the session is
\* up in stage 1, the server status is down, the library table is empty and no
\* interpreter was launched; with force the session is in stage 2 on return.
C24_ConstructedState ==
    ConstructorReturned =>
        /\ rpc_server = "running"
        /\ "set_server_status" \in rpc_funcs
        /\ handlers = {"atexit", "SIGINT", "SIGTERM"}
        /\ up
        /\ dll_dict = <<>>
        /\ ~force => /\ stage = 1
                     /\ ~server_up
                     /\ guests = <<>>
        /\ force => /\ stage = 2
                    /\ Len(guests) >= 1
                    /\ s2steps[Len(s2steps)] = "stage2"

C24_Witness ==
    /\ ConstructorReturned /\ ~force /\ pc = "idle"
    /\ stage = 1 /\ handlers = {"atexit", "SIGINT", "SIGTERM"}

\* C25: a session launches at most one guest interpreter over its lifetime.
C25_AtMostOneInterpreter == Len(guests) <= 1

\* C26: whenever the session is marked down, the terminate of every interpreter
\* it launched has been invoked.
C26_DownMeansTornDown ==
    (~up /\ stage # 0) => \A g \in 1..Len(guests) : g \in interpTerminated

\* C27: once the session is marked down, no step launches an interpreter or
\* issues a forward request.
C27_NothingAfterDown ==
    [][(~up /\ stage # 0) =>
          /\ Len(guests') = Len(guests)
          /\ lastReq' # lastReq => lastReq' = NoReq]_vars

\* C29: a session in stage 2 is connected to a guest that has itself reported
\* up; a guest that listens but has not reported yet is never taken as ready.
C29_OwnGuestReported ==
    stage = 2 => /\ rpc_client = interpreter_session
                 /\ guests[rpc_client] \notin {"starting", "listening"}

\* ------------------------------------------------------ re-entered terminate

\* The shutdown steps of the terminate calls in progress and of the last one:
\* those of the interrupted calls, then those of the running one.
RECURSIVE FrameSteps(_)
FrameSteps(fs) == IF fs = <<>> THEN <<>> ELSE FrameSteps(Tail(fs)) \o Head(fs).tsteps
AllShutdownSteps == FrameSteps(frames) \o tsteps
TimesDone(steps) == Cardinality({i \in 1..Len(AllShutdownSteps) : AllShutdownSteps[i] \in steps})

\* C28: with terminate re-entered from a signal handler, each shutdown step -
\* terminate request, interpreter teardown, reverse endpoint teardown, log
\* close - is performed at most once.
C28_ShutdownStepsOnce ==
    /\ TimesDone({"send", "send_eof"}) <= 1
    /\ TimesDone({"interp"}) <= 1
    /\ TimesDone({"rpc_server"}) <= 1
    /\ TimesDone({"log"}) <= 1

\* ------------------------------------------------------- rejected arguments

\* The last operation rejected its arguments.
ArgumentsRejected ==
    /\ ret.kind = "raise"
    /\ ret.err \in {"ValueError: unknown dll type",
                    "TypeError: in_path must by of type str",
                    "ValueError: unexpected keyword argument(s)"}

\* C30: an operation that rejects its arguments leaves the stage, the library
\* table and the number of launched interpreters as they were at the call.
C30_RejectionChangesNothing ==
    ArgumentsRejected =>
        /\ stage = pre.stage
        /\ DOMAIN dll_dict = pre.dlls
        /\ Len(guests) = pre.launched

\* ------------------------------------------------------------- configuration

\* C31: set_parameter(key, value) makes get_parameter(key) return value; in
\* stage 1 nothing is sent to the guest; in stage 2 the parameter is also
\* forwarded to the guest and the call completes without error.
C31_SetParameter ==
    par.op = "set_parameter" =>
        /\ p[par.key] = par.value
        /\ par.stage = 1 => ~par.sent /\ par.status = "return"
        /\ par.stage = 2 => par.sent /\ par.status = "return"

\* ------------------------------------------------------------ nested structs

\* The fields of description d that are structs themselves.
StructFields(d) == {i \in 1..Len(d.fields) : ~d.fields[i].f /\ d.fields[i].s}

\* The struct descriptions with a struct field among the arguments of the last
\* registration.
NestedArgs == {i \in 1..Len(r_last.argtypes) :
                  r_last.argtypes[i].s /\ StructFields(r_last.argtypes[i]) # {}}

\* C32: a struct description with a field that is itself a struct decodes to a
\* record type whose field has the decoded nested struct type, by value or as
\* pointer according to the field's pointer flag.
C32_NestedStructDecodes ==
    \A i \in NestedArgs :
        LET d == r_last.argtypes[i]
            dt == datatypes[r_last.routine]
        IN  /\ r_last.status = "ok"
            /\ d.t \in DOMAIN dt
            /\ \A k \in StructFields(d) :
                  /\ d.fields[k].t \in DOMAIN dt
                  /\ dt[d.t].fields[k] =
                        <<d.fields[k].n,
                          IF d.fields[k].p THEN Pointer(dt[d.fields[k].t])
                                           ELSE dt[d.fields[k].t]>>

====
